---- MODULE Spec2Model ----
(***************************************************************************)
(* Cluster-membership and coordination core of the AIStore control plane:  *)
(* the primary's SMap owner (join, keepalive eviction, maintenance, node   *)
(* removal, administrative set-primary), the rebalance trigger, the        *)
(* keepalive timeout statistics, the notification listeners and the        *)
(* receiving side of metasync.                                             *)
(*                                                                         *)
(* One module, several specifications.  Every specification moves its own  *)
(* group of variables and leaves the other groups at their initial value:  *)
(*   SpecReb   mustRunRebalance over bounded pairs of SMaps                *)
(*   SpecTT    keepalive timeout statistics (updateTimeoutForDaemon)       *)
(*   SpecNL    one notification listener and the notifs handler            *)
(*   SpecMS    one peer receiving metasync batches                         *)
(*   Spec      the primary proxy: SMap owner, RMD owner, keepalive sweep,  *)
(*             join, maintenance, unregNode, cluSetPrimary                 *)
(*   SpecElect administrative set-primary across three proxies             *)
(*   SpecJoin  the join handler with its replies, SpecKa the keepaliver,   *)
(*   SpecSweep sweeps across hand-overs, SpecCfg configUpdate,             *)
(*   SpecReq   join and rebalance requests, SpecTransit set-primary,       *)
(*   SpecFeed  register with its round-trip samples, SpecConv probes that  *)
(*             all observe maxKeepalive/10, SpecRm removal after rebalance,*)
(*   SpecGc    the stream collector of the transport,                      *)
(*   SpecSig   senders on the keepaliver's control channel,                *)
(*   SpecEvict the keepalive tracker of the primary over time              *)
(***************************************************************************)
EXTENDS Integers, Sequences, FiniteSets, TLC

VARIABLES
  \* ---- SpecReb: mustRunRebalance(ctx, cur)
  rbPrev,        \* ctx.smap
  rbCur,         \* cur
  rbEnabled,     \* cmn.GCO.Get().Rebalance.Enabled
  rbMustReb,     \* ctx._mustReb
  rbRes,         \* value returned by the last call: "unset", "true", "false"
  \* ---- SpecTT: keepalive timeout statistics
  timeoutStats,  \* keepalive.tt.timeoutStats: sid -> [srtt, rttvar, timeout]
  maxKeepalive,  \* keepalive.maxKeepalive, the cached config.Timeout.MaxKeepalive
  \* ---- SpecNL: one notification listener in the primary's notifs registry
  nlFinished,    \* notifiers that sent Finished
  nlAborted,     \* the listener's aborted flag
  nlErr,         \* TRUE iff the listener's error is non-nil
  nlStats,       \* per-notifier last-seen stats
  nlEndTime,     \* TRUE iff EndTime > 0, which is what Finished() returns
  nlInNls,       \* the listener is in notifs.nls (active)
  nlInFin,       \* the listener is in notifs.fin (archived)
  nlCbCount,     \* number of invocations of the completion callback F
  nlPendDone,    \* handler goroutines that hold done = true and have yet to call n.done
  nlLscPc,       \* ListenSmapChanged: "idle", or "collected" once the listener is in remnl
  nlSmapT,       \* targets of the SMap the registry's owner currently holds
  nlLast,        \* the last notification handled: [op, from]
  \* ---- SpecMS: one peer receiving metasync batches
  msPrimary,     \* kind -> version of the revision the primary currently owns
  msInflight,    \* batches sent and not forgotten: each may arrive again, in any order
  msInstalled,   \* kind -> version of the revision installed at the peer
  \* ---- Spec: the primary proxy p1
  smap,          \* p.owner.smap.get(): [Version, Primary, Pmap, Tmap, Ep]
  rmd,           \* p.owner.rmd.get(): [Version, TargetIDs]
  clusterStarted,      \* p.ClusterStarted() and not p.owner.rmd.startup
  rebEnabled,          \* cmn.GCO.Get().Rebalance.Enabled
  inPrimaryTransition, \* p.inPrimaryTransition
  exited,        \* the process ended in cos.ExitLogf
  spPc,          \* cluSetPrimary in flight: "idle", "prepare", "commit"
  spPsi,         \* psi, the candidate cluSetPrimary read from its SMap snapshot
  joinq,         \* updateAndDistribute calls started and not yet run: [id, ep, flags]
  rmq,           \* rmNode requests past markMaintenance: [sid, act]
  toRemoveCh,    \* keepalive.toRemoveCh, a sequence of node ids
  stoppedCh,     \* len(keepalive.stoppedCh)
  chCap,         \* cap(keepalive.stoppedCh), 0 when the channels are nil
  inProgress,    \* keepalive.inProgress: a sweep is between its probes and its modify
  lastSync,      \* the last batch handed to metasyncer.sync: [msg, smap, rmd]
  nls,           \* rebalance listeners registered in p.notifs: [uuid, cb, act]
  \* ---- SpecElect: administrative set-primary across the proxies
  elSmap,        \* proxy -> [Version, Primary] of the SMap it holds
  elTransition,  \* proxy -> its inPrimaryTransition
  elExited,      \* proxies whose process ended in cos.ExitLogf
  elReq,         \* request -> [pc, at, psi, pend, newFailed]
  elInflight,    \* SMaps synced by a new primary and not forgotten
  elDemoted,     \* proxies whose metasyncer was told becomeNonPrimary
  \* ---- SpecJoin: join and keepalive requests with what the caller gets back
  reply,         \* the last request handled by httpclupost and what it came to:
                 \* [op, id, ep, probe, status]
  \* ---- SpecKa: one keepaliver, its Run loop and its control channel
  kaRole,        \* "primary": doKeepalive sweeps, "heartbeat": it registers
  runPc,         \* where Run is: waitStats, select, register, sweep, returned
  trig,          \* what started the round in progress: ticker, error
  ctl,           \* controlCh: open, stopping (Stop blocked in its send), closed
  tickerPaused,  \* keepalive.tickerPaused
  regI,          \* register: i, the retries made in the last round
  regRes,        \* register: how the last round ended
  primaryFail,   \* onPrimaryFail was called in the last round
  pr,            \* peer -> [pc, i] of its probe in the sweep in progress
  timedOut,      \* peers for which isTimeToPing holds
  \* ---- SpecCfg: configUpdate and the keepalive tracker
  kaConf,        \* the keepalive section of the global config and its MaxKeepalive
  kaState,       \* keepalive: maxKeepalive, interval, kt, and Run's position
  \* ---- SpecGc: the stream collector of the transport
  gcStreams,     \* gc.streams: the lids of the map
  gcHeap,        \* gc.heap: sequence of lids, position i of the code is gcHeap[i + 1]
  sb,            \* lid -> streamBase: time.ticks, time.index, time.inSend, sessST, ...
  gcLast,        \* what the run loop handled last: "none", "add", "remove", "tick"
  \* ---- SpecSig: senders on the keepaliver's control channel
  sendPc,        \* the sender: "idle", the message it is blocked sending, "panicked"
  \* ---- SpecEvict: the keepalive tracker of the primary over time
  ktRec,         \* peer -> the tracker's record of it: [ok, count, last, total]
  now            \* mono.NanoTime, in the unit of the keepalive interval

nlVars == <<nlFinished, nlAborted, nlErr, nlStats, nlEndTime, nlInNls, nlInFin,
            nlCbCount, nlPendDone, nlLscPc, nlSmapT, nlLast>>
msVars == <<msPrimary, msInflight, msInstalled>>
ttVars == <<timeoutStats, maxKeepalive>>
rebVars == <<rbPrev, rbCur, rbEnabled, rbMustReb, rbRes>>
cluVars == <<smap, rmd, clusterStarted, rebEnabled, inPrimaryTransition, exited,
             spPc, spPsi, joinq, rmq, toRemoveCh, stoppedCh, chCap, inProgress,
             lastSync, nls>>

elVars == <<elSmap, elTransition, elExited, elReq, elInflight, elDemoted>>
joinVars == <<reply>>
kaVars == <<kaRole, runPc, trig, ctl, tickerPaused, regI, regRes, primaryFail, pr, timedOut>>

ktVars == <<kaConf, kaState>>
gcVars == <<gcStreams, gcHeap, sb, gcLast>>
sigVars == <<sendPc>>
evVars == <<ktRec, now>>

vars == <<rebVars, ttVars, nlVars, msVars, cluVars, elVars, joinVars, kaVars, ktVars, gcVars, sigVars, evVars>>

\* each specification leaves the other groups of variables alone
OnlyReb == UNCHANGED <<ttVars, nlVars, msVars, cluVars, elVars, joinVars, kaVars, ktVars, gcVars, sigVars, evVars>>
OnlyTT  == UNCHANGED <<rebVars, nlVars, msVars, cluVars, elVars, joinVars, kaVars, ktVars, gcVars, sigVars, evVars>>
OnlyNL  == UNCHANGED <<rebVars, ttVars, msVars, cluVars, elVars, joinVars, kaVars, ktVars, gcVars, sigVars, evVars>>
OnlyMS  == UNCHANGED <<rebVars, ttVars, nlVars, cluVars, elVars, joinVars, kaVars, ktVars, gcVars, sigVars, evVars>>
OnlyClu == UNCHANGED <<rebVars, ttVars, nlVars, msVars, elVars, joinVars, kaVars, ktVars, gcVars, sigVars, evVars>>
OnlyEl  == UNCHANGED <<rebVars, ttVars, nlVars, msVars, cluVars, joinVars, kaVars, ktVars, gcVars, sigVars, evVars>>
OnlyJoin == UNCHANGED <<rebVars, ttVars, nlVars, msVars, elVars, kaVars, ktVars, gcVars, sigVars, evVars>>
OnlyKa == UNCHANGED <<rebVars, ttVars, nlVars, msVars, elVars, joinVars, ktVars, gcVars, sigVars, evVars>>
OnlyKt == UNCHANGED <<rebVars, ttVars, nlVars, msVars, cluVars, elVars, joinVars, kaVars, gcVars, sigVars, evVars>>
OnlyGc == UNCHANGED <<rebVars, ttVars, nlVars, msVars, cluVars, elVars, joinVars, kaVars, ktVars,
                       sigVars, evVars>>

----------------------------------------------------------------------------
(* The stream collector: a heap of streams keyed by idle ticks             *)

Lids == {"s1", "s2", "s3"}
\* int(s.time.idleTeardown / tickUnit)
IdleTicks == 3

\* a stream as it is constructed; ctrl is how far its add and remove requests
\* got: "new", "added", "rm-sent", "done"
NewStream ==
  [ticks |-> IdleTicks, index |-> 0, inSend |-> FALSE, active |-> FALSE,
   terminated |-> FALSE, ctrl |-> "new"]

InitGc ==
  /\ gcStreams = {}
  /\ gcHeap = <<>>
  /\ sb = [s \in Lids |-> NewStream]
  /\ gcLast = "none"
IdleGc == InitGc

\* the collector as one value: the operators below map one to the next
GC == [streams |-> gcStreams, heap |-> gcHeap, sb |-> sb]
SetGC(g) == gcStreams' = g.streams /\ gcHeap' = g.heap /\ sb' = g.sb

\* gc.heap[i]
At(g, i) == g.heap[i + 1]
\* collector.Less, collector.Swap
Less(g, i, j) == g.sb[At(g, i)].ticks < g.sb[At(g, j)].ticks
Swap(g, i, j) ==
  LET si == At(g, i)
      sj == At(g, j)
      h  == [[g.heap EXCEPT ![i + 1] = sj] EXCEPT ![j + 1] = si]
      b1 == [g.sb EXCEPT ![sj].index = i]
      b2 == [b1 EXCEPT ![si].index = j]
  IN [g EXCEPT !.heap = h, !.sb = b2]

\* container/heap: up, down, Fix, Push, Remove
RECURSIVE up(_, _)
up(g, j) ==
  IF j = 0 THEN g
  ELSE LET i == (j - 1) \div 2
       IN IF ~Less(g, j, i) THEN g ELSE up(Swap(g, i, j), i)
RECURSIVE downFrom(_, _, _)
downFrom(g, i, n) ==
  LET j1 == 2 * i + 1
  IN IF j1 >= n THEN [g |-> g, i |-> i]
     ELSE LET j == IF j1 + 1 < n /\ Less(g, j1 + 1, j1) THEN j1 + 1 ELSE j1
          IN IF ~Less(g, j, i) THEN [g |-> g, i |-> i]
             ELSE downFrom(Swap(g, i, j), j, n)
down(g, i0, n) ==
  LET r == downFrom(g, i0, n) IN [g |-> r.g, moved |-> r.i > i0]
Fix(g, i) ==
  LET d == down(g, i, Len(g.heap)) IN IF d.moved THEN d.g ELSE up(d.g, i)
\* collector.Push: append, then heap.Fix
Push(g, s) ==
  LET l == Len(g.heap)
  IN Fix([g EXCEPT !.sb[s].index = l, !.heap = Append(@, s)], l)
\* collector.Pop
Pop(g) == [g EXCEPT !.heap = SubSeq(@, 1, Len(@) - 1)]
heapPush(g, s) ==
  LET g1 == Push(g, s) IN up(g1, Len(g1.heap) - 1)
heapRemove(g, i) ==
  LET n == Len(g.heap) - 1
  IN IF n = i THEN Pop(g)
     ELSE LET d == down(Swap(g, i, n), i, n)
          IN Pop(IF d.moved THEN d.g ELSE up(d.g, i))
\* collector.update
update(g, s, ticks) == Fix([g EXCEPT !.sb[s].ticks = ticks], g.sb[s].index)

\* the orders in which a range over the map gc.streams may visit it
Orders(S) ==
  {o \in [1..Cardinality(S) -> S] : \A i, j \in 1..Cardinality(S) : o[i] = o[j] => i = j}

\* do(), first loop, one stream
doFirst(g, s) ==
  IF g.sb[s].terminated
  THEN IF g.sb[s].inSend
       THEN [g EXCEPT !.sb[s].inSend = FALSE, !.sb[s].ticks = 1]
       ELSE LET g1 == [g EXCEPT !.sb[s].ticks = @ - 1]
            IN IF g1.sb[s].ticks <= 0 THEN [g1 EXCEPT !.streams = @ \ {s}] ELSE g1
  ELSE IF g.sb[s].active THEN update(g, s, g.sb[s].ticks - 1)
  ELSE g
\* do(), second loop, one stream; idle tells whether idleTick finds the
\* stream with no work queued and deactivates it
doSecond(g, s, idle) ==
  IF g.sb[s].ticks > 0 THEN g
  ELSE LET g1 == update(g, s, IdleTicks)
       IN IF g1.sb[s].inSend THEN [g1 EXCEPT !.sb[s].inSend = FALSE]
          ELSE IF idle THEN [g1 EXCEPT !.sb[s].active = FALSE]
          ELSE g1
RECURSIVE doFirstLoop(_, _)
doFirstLoop(g, o) ==
  IF o = <<>> THEN g ELSE doFirstLoop(doFirst(g, Head(o)), Tail(o))
RECURSIVE doSecondLoop(_, _, _)
doSecondLoop(g, o, idle) ==
  IF o = <<>> THEN g ELSE doSecondLoop(doSecond(g, Head(o), idle), Tail(o), idle)

\* run, ticker case: do()
GcTick ==
  /\ OnlyGc
  /\ \E o1 \in Orders(gcStreams), idle \in BOOLEAN :
       LET g1 == doFirstLoop(GC, o1)
       IN \E o2 \in Orders(g1.streams) : SetGC(doSecondLoop(g1, o2, idle))
  /\ gcLast' = "tick"

\* run, ctrlCh case with add: a new stream enters the map and the heap
GcAdd(s) ==
  /\ OnlyGc
  /\ sb[s].ctrl = "new"
  /\ s \notin gcStreams
  /\ LET g == heapPush([GC EXCEPT !.streams = @ \cup {s}], s)
     IN SetGC([g EXCEPT !.sb[s].ctrl = "added"])
  /\ gcLast' = "add"

\* a stream that was added starts to send: inSend is set, the session active
GcStartSend(s) ==
  /\ OnlyGc
  /\ sb[s].ctrl = "added"
  /\ ~sb[s].terminated
  /\ sb' = [sb EXCEPT ![s].inSend = TRUE, ![s].active = TRUE]
  /\ UNCHANGED <<gcStreams, gcHeap, gcLast>>

\* a stream terminates: Terminated() holds from now on and gc.remove(s) has
\* put its request on ctrlCh
GcTerminate(s) ==
  /\ OnlyGc
  /\ sb[s].ctrl = "added"
  /\ sb' = [sb EXCEPT ![s].terminated = TRUE, ![s].ctrl = "rm-sent"]
  /\ UNCHANGED <<gcStreams, gcHeap, gcLast>>

\* run, ctrlCh case with remove
GcRemove(s) ==
  /\ OnlyGc
  /\ sb[s].ctrl = "rm-sent"
  /\ LET g == IF s \in gcStreams
              THEN [heapRemove(GC, sb[s].index) EXCEPT !.sb[s].ticks = 1]
              ELSE GC
     IN SetGC([g EXCEPT !.sb[s].ctrl = "done"])
  /\ gcLast' = "remove"

NextGc ==
  \/ GcTick
  \/ \E s \in Lids : GcAdd(s)
  \/ \E s \in Lids : GcStartSend(s)
  \/ \E s \in Lids : GcTerminate(s)
  \/ \E s \in Lids : GcRemove(s)


----------------------------------------------------------------------------
(* Nodes and node flags                                                    *)

Proxies == {"p1", "p2", "p3"}
Targets == {"t1", "t2", "t3"}
Nodes   == Proxies \cup Targets

\* cluster.NodeFlagsMaintDecomm: the two flags that make a node inactive
NodeFlagsMaintDecomm == {"Maint", "Decomm"}
FlagSets == {{}, {"Maint"}, {"Decomm"}}

IsProxy(sid) == sid \in Proxies
IsAnySet(flags, mask) == flags \cap mask # {}

\* A node map (cluster.NodeMap): node id -> flags of the node's descriptor
NodeMaps(ids) == UNION {[S -> FlagSets] : S \in SUBSET ids}

GetProxy(m, sid)  == IF sid \in DOMAIN m.Pmap THEN sid ELSE "nil"
GetTarget(m, sid) == IF sid \in DOMAIN m.Tmap THEN sid ELSE "nil"
\* Smap.GetNode: targets first, then proxies
GetNode(m, sid) ==
  IF sid \in DOMAIN m.Tmap THEN sid
  ELSE IF sid \in DOMAIN m.Pmap THEN sid ELSE "nil"
NodeFlags(m, sid) ==
  IF sid \in DOMAIN m.Tmap THEN m.Tmap[sid] ELSE m.Pmap[sid]
\* Smap.GetNodeNotMaint: the node unless it is flagged Maintenance/Decommission
GetNodeNotMaint(m, sid) ==
  IF GetNode(m, sid) # "nil" /\ ~IsAnySet(NodeFlags(m, sid), NodeFlagsMaintDecomm)
  THEN sid ELSE "nil"
\* Smap.PresentInMaint
PresentInMaint(m, sid) ==
  GetNode(m, sid) # "nil" /\ IsAnySet(NodeFlags(m, sid), NodeFlagsMaintDecomm)
ActiveTargets(m) ==
  {t \in DOMAIN m.Tmap : ~IsAnySet(m.Tmap[t], NodeFlagsMaintDecomm)}
CountActiveTargets(m) == Cardinality(ActiveTargets(m))

----------------------------------------------------------------------------
(* mustRunRebalance                                                        *)

\* mutant: the two loops do not skip targets flagged Maintenance/Decommission
mustRunRebalance_noskip(mustReb, enabled, prev, cur) ==
  IF mustReb THEN TRUE
  ELSE IF ~enabled THEN FALSE
  ELSE LET added   == \E t \in DOMAIN cur.Tmap :
                        ~IsProxy(t) /\ GetNodeNotMaint(prev, t) = "nil"
           removed == \E t \in DOMAIN prev.Tmap :
                        ~IsProxy(t) /\ GetNodeNotMaint(cur, t) = "nil"
       IN (added \/ removed)
          /\ CountActiveTargets(prev) # 0 /\ CountActiveTargets(cur) # 0

\* mutant: the final check looks at cur alone
mustRunRebalance_curonly(mustReb, enabled, prev, cur) ==
  IF mustReb THEN TRUE
  ELSE IF ~enabled THEN FALSE
  ELSE LET added   == \E t \in DOMAIN cur.Tmap :
                        /\ ~(IsProxy(t) \/ IsAnySet(cur.Tmap[t], NodeFlagsMaintDecomm))
                        /\ GetNodeNotMaint(prev, t) = "nil"
           removed == \E t \in DOMAIN prev.Tmap :
                        /\ ~(IsProxy(t) \/ IsAnySet(prev.Tmap[t], NodeFlagsMaintDecomm))
                        /\ GetNodeNotMaint(cur, t) = "nil"
       IN (added \/ removed) /\ CountActiveTargets(cur) # 0

\* mustRunRebalance(ctx, cur): the value returned, which is also the value
\* left in ctx._mustReb; `mustReb` is ctx._mustReb on entry, `prev` ctx.smap
mustRunRebalance(mustReb, enabled, prev, cur) ==
  IF mustReb THEN TRUE
  ELSE IF ~enabled THEN FALSE
  ELSE LET added   == \E t \in DOMAIN cur.Tmap :
                        /\ ~(IsProxy(t) \/ IsAnySet(cur.Tmap[t], NodeFlagsMaintDecomm))
                        /\ GetNodeNotMaint(prev, t) = "nil"
           removed == \E t \in DOMAIN prev.Tmap :
                        /\ ~(IsProxy(t) \/ IsAnySet(prev.Tmap[t], NodeFlagsMaintDecomm))
                        /\ GetNodeNotMaint(cur, t) = "nil"
       IN (added \/ removed)
          /\ CountActiveTargets(prev) # 0 /\ CountActiveTargets(cur) # 0

BoolStr(b) == IF b THEN "true" ELSE "false"

RebMaps == {[Pmap |-> [p \in {"p1"} |-> {}], Tmap |-> tm] : tm \in NodeMaps(Targets)}

InitReb ==
  /\ rbPrev \in RebMaps
  /\ rbCur \in RebMaps
  /\ rbEnabled \in BOOLEAN
  /\ rbMustReb = FALSE
  /\ rbRes = "unset"

IdleReb ==
  /\ rbPrev = [Pmap |-> [p \in {"p1"} |-> {}], Tmap |-> <<>>]
  /\ rbCur = [Pmap |-> [p \in {"p1"} |-> {}], Tmap |-> <<>>]
  /\ rbEnabled = TRUE
  /\ rbMustReb = FALSE
  /\ rbRes = "unset"

\* one call of mustRunRebalance(ctx, cur)
RebCall ==
  /\ OnlyReb
  /\ rbMustReb' = mustRunRebalance(rbMustReb, rbEnabled, rbPrev, rbCur)
  /\ rbRes' = BoolStr(rbMustReb')
  /\ UNCHANGED <<rbPrev, rbCur, rbEnabled>>

----------------------------------------------------------------------------
(* Keepalive timeout statistics (keepalive.tt)                             *)

\* config.Timeout.MaxKeepalive, in time units
MaxKeepaliveCfg == 40
\* largest round trip a probe can observe
MaxRTT == 48
\* round trips observed
RTTSamples == {0, MaxKeepaliveCfg \div 10, MaxKeepaliveCfg, MaxRTT}
\* peers whose statistics are tracked
TTPeers == {"p1", "t1"}

alpha == 125
beta == 250
c == 4

AbsI64(x) == IF x < 0 THEN -x ELSE x
MinI64(a, b) == IF a < b THEN a ELSE b
MaxI64(a, b) == IF a > b THEN a ELSE b
\* cos.DivRound: division rounded to the nearest
DivRound(a, b) == (a + b \div 2) \div b

\* timeoutStatsForDaemon: the entry of sid, materialized when missing
NewTimeoutStats(maxKA) ==
  [srtt |-> maxKA, rttvar |-> maxKA \div 2, timeout |-> maxKA]
timeoutStatsForDaemon(tt, sid, maxKA) ==
  IF sid \in DOMAIN tt THEN tt[sid] ELSE NewTimeoutStats(maxKA)

\* mutant: the lower clamp (MaxI64 with maxKeepalive/2) is missing
updateTimeoutForDaemon_nofloor(ts, d, maxKA) ==
  LET rttvar == DivRound((1000 - beta) * ts.rttvar + beta * AbsI64(ts.srtt - d), 1000)
      srtt   == DivRound((1000 - alpha) * ts.srtt + alpha * d, 1000)
  IN [srtt |-> srtt, rttvar |-> rttvar,
      timeout |-> MinI64(maxKA, srtt + c * rttvar)]

\* mutant: the variance counts twice instead of c times
updateTimeoutForDaemon_c2(ts, d, maxKA) ==
  LET rttvar == DivRound((1000 - beta) * ts.rttvar + beta * AbsI64(ts.srtt - d), 1000)
      srtt   == DivRound((1000 - alpha) * ts.srtt + alpha * d, 1000)
  IN [srtt |-> srtt, rttvar |-> rttvar,
      timeout |-> MaxI64(MinI64(maxKA, srtt + 2 * rttvar), maxKA \div 2)]

\* updateTimeoutForDaemon: the statistics after the round trip d
updateTimeoutForDaemon(ts, d, maxKA) ==
  LET rttvar == DivRound((1000 - beta) * ts.rttvar + beta * AbsI64(ts.srtt - d), 1000)
      srtt   == DivRound((1000 - alpha) * ts.srtt + alpha * d, 1000)
  IN [srtt |-> srtt, rttvar |-> rttvar,
      timeout |-> MaxI64(MinI64(maxKA, srtt + c * rttvar), maxKA \div 2)]

\* tt.timeoutStats with the entry of sid set to ts
SetTimeoutStats(tt, sid, ts) ==
  [x \in DOMAIN tt \cup {sid} |-> IF x = sid THEN ts ELSE tt[x]]

InitTT ==
  /\ timeoutStats = <<>>
  /\ maxKeepalive = MaxKeepaliveCfg

\* a caller reads the timeout of sid (_pingRetry, retry, register)
TTLookup(sid) ==
  /\ OnlyTT
  /\ timeoutStats' = SetTimeoutStats(timeoutStats, sid,
                        timeoutStatsForDaemon(timeoutStats, sid, maxKeepalive))
  /\ UNCHANGED maxKeepalive

\* updateTimeoutForDaemon(sid, d)
TTUpdate(sid, d) ==
  /\ OnlyTT
  /\ timeoutStats' = SetTimeoutStats(timeoutStats, sid,
        updateTimeoutForDaemon(timeoutStatsForDaemon(timeoutStats, sid, maxKeepalive),
                               d, maxKeepalive))
  /\ UNCHANGED maxKeepalive

----------------------------------------------------------------------------
(* Notification listener and the notifs handler                            *)

\* the listener's notifier set: the targets of the SMap at creation
NLNotifiers == {"t1", "t2", "t3"}
\* largest value of the stats blob a notifier reports
MaxStat == 1

InitNL ==
  /\ nlFinished = {}
  /\ nlAborted = FALSE
  /\ nlErr = FALSE
  /\ nlStats = [t \in NLNotifiers |-> 0]
  /\ nlEndTime = FALSE
  /\ nlInNls = TRUE
  /\ nlInFin = FALSE
  /\ nlCbCount = 0
  /\ nlPendDone = {}
  /\ nlLscPc = "idle"
  /\ nlSmapT = NLNotifiers
  /\ nlLast = [op |-> "none", from |-> "none", ab |-> FALSE]

\* notifs.entry(uuid): active listeners first, then the archived ones
NLEntryExists == nlInNls \/ nlInFin
\* nl.ActiveNotifiers()
NLActiveNotifiers == NLNotifiers \ nlFinished
\* nl.Finished()
NLFinished == nlEndTime

\* mutant: a Progress notification also marks its sender finished
HandleProgress_marks(t, stats) ==
  /\ OnlyNL
  /\ NLEntryExists
  /\ t \notin nlFinished
  /\ nlStats' = [nlStats EXCEPT ![t] = stats]
  /\ nlFinished' = nlFinished \cup {t}
  /\ nlLast' = [op |-> "progress", from |-> t, ab |-> FALSE]
  /\ UNCHANGED <<nlAborted, nlErr, nlEndTime, nlInNls, nlInFin, nlCbCount,
                 nlPendDone, nlLscPc, nlSmapT>>

\* handler, kind = Progress: merge the stats into the sender's slot
HandleProgress(t, stats) ==
  /\ OnlyNL
  /\ NLEntryExists
  /\ t \notin nlFinished
  /\ nlStats' = [nlStats EXCEPT ![t] = stats]
  /\ nlLast' = [op |-> "progress", from |-> t, ab |-> FALSE]
  /\ UNCHANGED <<nlFinished, nlAborted, nlErr, nlEndTime, nlInNls, nlInFin,
                 nlCbCount, nlPendDone, nlLscPc, nlSmapT>>

\* mutant: a listener that was aborted takes no further Finished notification
HandleFinished_blocked(t, stats, aborted, srcErr) ==
  /\ OnlyNL
  /\ NLEntryExists
  /\ ~nlAborted
  /\ t \notin nlFinished
  /\ nlStats' = [nlStats EXCEPT ![t] = stats]
  /\ nlFinished' = nlFinished \cup {t}
  /\ nlAborted' = (nlAborted \/ aborted)
  /\ nlErr' = (nlErr \/ aborted \/ srcErr)
  /\ nlPendDone' = IF nlFinished' = NLNotifiers \/ aborted
                   THEN nlPendDone \cup {t} ELSE nlPendDone
  /\ nlLast' = [op |-> "finished", from |-> t, ab |-> aborted]
  /\ UNCHANGED <<nlEndTime, nlInNls, nlInFin, nlCbCount, nlLscPc, nlSmapT>>

\* handler, kind = Finished (handleFinished up to the unlock): merge the stats,
\* mark the sender finished, set aborted and the error; done is computed from
\* the active count and from the abort carried by this message
HandleFinished(t, stats, aborted, srcErr) ==
  /\ OnlyNL
  /\ NLEntryExists
  /\ t \notin nlFinished
  /\ nlStats' = [nlStats EXCEPT ![t] = stats]
  /\ nlFinished' = nlFinished \cup {t}
  /\ nlAborted' = (nlAborted \/ aborted)
  /\ nlErr' = (nlErr \/ aborted \/ srcErr)
  /\ nlPendDone' = IF nlFinished' = NLNotifiers \/ aborted
                   THEN nlPendDone \cup {t} ELSE nlPendDone
  /\ nlLast' = [op |-> "finished", from |-> t, ab |-> aborted]
  /\ UNCHANGED <<nlEndTime, nlInNls, nlInFin, nlCbCount, nlLscPc, nlSmapT>>

\* mutant: done() does not check that the listener was still active and the
\* callback is not guarded by the end time
NotifsDone_unguarded(t) ==
  /\ OnlyNL
  /\ t \in nlPendDone
  /\ nlPendDone' = nlPendDone \ {t}
  /\ nlInNls' = FALSE
  /\ nlInFin' = TRUE
  /\ nlEndTime' = TRUE
  /\ nlCbCount' = nlCbCount + 1
  /\ UNCHANGED <<nlFinished, nlAborted, nlErr, nlStats, nlLscPc, nlSmapT, nlLast>>

\* notifs.done(nl): remove the listener from the active set - return if it was
\* no longer there -, archive it, and invoke the callback, which fires F only
\* if the end time was not set yet
NotifsDone(t) ==
  /\ OnlyNL
  /\ t \in nlPendDone
  /\ nlPendDone' = nlPendDone \ {t}
  /\ IF nlInNls
     THEN /\ nlInNls' = FALSE
          /\ nlInFin' = TRUE
          /\ nlEndTime' = TRUE
          /\ nlCbCount' = IF nlEndTime THEN nlCbCount ELSE nlCbCount + 1
     ELSE UNCHANGED <<nlInNls, nlInFin, nlEndTime, nlCbCount>>
  /\ UNCHANGED <<nlFinished, nlAborted, nlErr, nlStats, nlLscPc, nlSmapT, nlLast>>

\* a new SMap without target t is installed
NLSmapRemove(t) ==
  /\ OnlyNL
  /\ t \in nlSmapT
  /\ nlSmapT' = nlSmapT \ {t}
  /\ UNCHANGED <<nlFinished, nlAborted, nlErr, nlStats, nlEndTime, nlInNls, nlInFin,
                 nlCbCount, nlPendDone, nlLscPc, nlLast>>

\* mutant: only notifiers that have not finished yet are looked up in the SMap
lscAffected_active == nlInNls /\ \E t \in NLActiveNotifiers : t \notin nlSmapT
\* the listener is active and its notifier set contains a node that is now
\* absent from the SMap
lscAffected == nlInNls /\ \E t \in NLNotifiers : t \notin nlSmapT

\* ListenSmapChanged, first part: an active listener with a notifier that is
\* no longer in the SMap is collected
LSCCollect ==
  /\ OnlyNL
  /\ nlLscPc = "idle"
  /\ lscAffected
  /\ nlLscPc' = "collected"
  /\ UNCHANGED <<nlFinished, nlAborted, nlErr, nlStats, nlEndTime, nlInNls, nlInFin,
                 nlCbCount, nlPendDone, nlSmapT, nlLast>>

\* ListenSmapChanged, second part: abort the collected listener with a
\* synthetic error, archive it, and invoke the callback
LSCAbort ==
  /\ OnlyNL
  /\ nlLscPc = "collected"
  /\ nlLscPc' = "idle"
  /\ nlErr' = TRUE
  /\ nlAborted' = TRUE
  /\ nlInFin' = TRUE
  /\ nlInNls' = FALSE
  /\ nlEndTime' = TRUE
  /\ nlCbCount' = IF nlEndTime THEN nlCbCount ELSE nlCbCount + 1
  /\ nlLast' = [op |-> "smap-changed", from |-> "none", ab |-> TRUE]
  /\ UNCHANGED <<nlFinished, nlStats, nlPendDone, nlSmapT>>

----------------------------------------------------------------------------
(* configUpdate and the keepalive trackers                                 *)

TrackerNames == {"heartbeat", "average"}
Factors == {3, 5}
Intervals == {10, 20}
MaxKeepalives == {MaxKeepaliveCfg \div 2, MaxKeepaliveCfg}
KtPeers == {"p2", "t1"}

\* newKeepaliveTracker: a heartbeat tracker holds the interval, an average
\* tracker the factor (0: the variant has no such field); no samples yet
newKeepaliveTracker(conf) ==
  IF conf.Name = "heartbeat"
  THEN [name |-> "heartbeat", factor |-> 0, interval |-> conf.Interval, heard |-> {}]
  ELSE [name |-> "average", factor |-> conf.Factor, interval |-> 0, heard |-> {}]

\* mutant: every update finds the tracker changed
changed_always(kt, factor, interval) == TRUE
\* HBTracker.changed, AvgTracker.changed
changed(kt, factor, interval) ==
  IF kt.name = "heartbeat" THEN kt.interval # interval ELSE kt.factor # factor

\* the keepalive built from conf; gen flips at every rebuild of the tracker,
\* builtAt is the factor and interval configured at the last build, seen the
\* config of the last configUpdate
newKeepalive(conf) ==
  [pc |-> "select", maxKeepalive |-> conf.MaxKeepalive, interval |-> conf.Interval,
   kt |-> newKeepaliveTracker(conf), gen |-> 0,
   builtAt |-> [Factor |-> conf.Factor, Interval |-> conf.Interval], seen |-> conf]

KaConfs ==
  [Name : TrackerNames, Factor : Factors, Interval : Intervals, MaxKeepalive : MaxKeepalives]

InitKt == kaConf \in KaConfs /\ kaState = newKeepalive(kaConf)
IdleKt ==
  /\ kaConf = [Name |-> "heartbeat", Factor |-> 3, Interval |-> 10,
               MaxKeepalive |-> MaxKeepaliveCfg]
  /\ kaState = newKeepalive(kaConf)

\* the configuration is updated: factor, interval or max keepalive
KtSetConfig(factor, interval, maxKA) ==
  /\ OnlyKt
  /\ kaConf' = [kaConf EXCEPT !.Factor = factor, !.Interval = interval,
                              !.MaxKeepalive = maxKA]
  /\ kaConf' # kaConf
  /\ UNCHANGED kaState

\* keepalive.heardFrom: the tracker records a sample for sid
heardFrom(k, sid) == [k EXCEPT !.kt.heard = @ \cup {sid}]

\* HeardFrom: a sample for sid is recorded
KtHeardFrom(sid) ==
  /\ OnlyKt
  /\ sid \notin kaState.kt.heard
  /\ kaState' = heardFrom(kaState, sid)
  /\ UNCHANGED kaConf

\* Run, the ticker case up to the return of doKeepalive
KtTick ==
  /\ OnlyKt
  /\ kaState.pc = "select"
  /\ kaState' = [kaState EXCEPT !.pc = "configUpdate"]
  /\ UNCHANGED kaConf

\* keepalive.configUpdate, with which the ticker case ends
configUpdate(k, conf) ==
  IF ~changed(k.kt, conf.Factor, conf.Interval)
  THEN [k EXCEPT !.maxKeepalive = conf.MaxKeepalive]
  ELSE [k EXCEPT !.maxKeepalive = conf.MaxKeepalive,
                 !.interval = conf.Interval,
                 !.kt = newKeepaliveTracker(conf),
                 !.gen = 1 - @,
                 !.builtAt = [Factor |-> conf.Factor, Interval |-> conf.Interval]]

KtConfigUpdate ==
  /\ OnlyKt
  /\ kaState.pc = "configUpdate"
  /\ kaState' = [configUpdate(kaState, kaConf) EXCEPT !.pc = "select", !.seen = kaConf]
  /\ UNCHANGED kaConf

----------------------------------------------------------------------------
(* Metasync, receiving side                                                *)

\* revision kinds sent in one batch
RevKinds == {"SMap", "BMD", "RMD"}
\* largest version the primary publishes
MaxRevVersion == 2

InitMS ==
  /\ msPrimary = [k \in RevKinds |-> 0]
  /\ msInflight = {}
  /\ msInstalled = [k \in RevKinds |-> 0]

\* the primary modifies the revisions of `kinds` and syncs them as one batch:
\* a batch maps each kind it carries to the version sent
MSSync(kinds) ==
  /\ OnlyMS
  /\ kinds # {}
  /\ \A k \in kinds : msPrimary[k] < MaxRevVersion
  /\ msPrimary' = [k \in RevKinds |-> IF k \in kinds THEN msPrimary[k] + 1 ELSE msPrimary[k]]
  /\ msInflight' = msInflight \cup {[k \in kinds |-> msPrimary'[k]]}
  /\ UNCHANGED msInstalled

\* mutant: the recipient installs whatever it receives
ReceiveRev_always(installed, ver) == ver

\* the recipient installs a received revision only if its version is greater
\* than the installed one, and drops it otherwise
ReceiveRev(installed, ver) == IF ver > installed THEN ver ELSE installed

\* the peer's installed versions after batch b
ReceiveBatch(installed, b) ==
  [k \in RevKinds |-> IF k \in DOMAIN b THEN ReceiveRev(installed[k], b[k])
                      ELSE installed[k]]

\* a batch arrives at the peer: first delivery, duplicate or retry, in any order
MSReceive(b) ==
  /\ OnlyMS
  /\ b \in msInflight
  /\ msInstalled' = ReceiveBatch(msInstalled, b)
  /\ UNCHANGED <<msPrimary, msInflight>>

----------------------------------------------------------------------------
(* The primary proxy p1: SMap owner, RMD owner and their handlers          *)

\* p.si, the proxy whose handlers are modelled
Self == "p1"
CluProxies == {"p1", "p2"}
CluTargets == {"t1", "t2"}
CluNodes == CluProxies \cup CluTargets
\* largest SMap and RMD version the handlers are allowed to produce
MaxVersion == 3
\* largest number of requests in flight past their first step
MaxPending == 1
\* largest number of rebalance listeners registered at a time
MaxListeners == 1
MaxJoins == 2

\* httpclupost: apiOp
JoinOps == {"self-join", "admin-join", "keepalive"}
\* rmNode: msg.Action
RmActions == {"start-maintenance", "decommission-node", "shutdown-node"}

Put(f, k, v) == [x \in DOMAIN f \cup {k} |-> IF x = k THEN v ELSE f[x]]
Del(f, k) == [x \in DOMAIN f \ {k} |-> f[x]]

\* smapX.Count
Count(m) == Cardinality(DOMAIN m.Pmap) + Cardinality(DOMAIN m.Tmap)
\* smapX.isPrimary
isPrimary(m, self) == m.Primary = self
\* smapX.addProxy, addTarget, delProxy, delTarget: each bumps the version
\* m.Ep holds the identity fields (the endpoints) of each node of the map
addProxy(m, id, ep, flags) ==
  [m EXCEPT !.Pmap = Put(@, id, flags), !.Ep = Put(@, id, ep), !.Version = @ + 1]
addTarget(m, id, ep, flags) ==
  [m EXCEPT !.Tmap = Put(@, id, flags), !.Ep = Put(@, id, ep), !.Version = @ + 1]
delProxy(m, sid) == [m EXCEPT !.Pmap = Del(@, sid), !.Ep = Del(@, sid), !.Version = @ + 1]
delTarget(m, sid) == [m EXCEPT !.Tmap = Del(@, sid), !.Ep = Del(@, sid), !.Version = @ + 1]
\* smapX.putNode: an existing node with this id is deleted first
putNode(m, id, ep, flags) ==
  IF IsProxy(id)
  THEN addProxy(IF GetProxy(m, id) # "nil" THEN delProxy(m, id) ELSE m, id, ep, flags)
  ELSE addTarget(IF GetTarget(m, id) # "nil" THEN delTarget(m, id) ELSE m, id, ep, flags)
\* what putNode returns
putNodeExists(m, id) ==
  IF IsProxy(id) THEN GetProxy(m, id) # "nil" ELSE GetTarget(m, id) # "nil"
\* smapX.setNodeFlags, clearNodeFlags
setNodeFlags(m, sid, flags) ==
  IF IsProxy(sid)
  THEN [m EXCEPT !.Pmap[sid] = @ \cup flags, !.Version = @ + 1]
  ELSE [m EXCEPT !.Tmap[sid] = @ \cup flags, !.Version = @ + 1]
clearNodeFlags(m, sid, flags) ==
  IF IsProxy(sid)
  THEN [m EXCEPT !.Pmap[sid] = @ \ flags, !.Version = @ + 1]
  ELSE [m EXCEPT !.Tmap[sid] = @ \ flags, !.Version = @ + 1]

\* rebMD.inc
rmdInc(r, ids) == [Version |-> r.Version + 1, TargetIDs |-> ids]

\* a metasync batch: the action of its message and the SMap and RMD versions
\* it carries, 0 for a kind it lacks
Batch(msg, sv, rv) == [msg |-> msg, smap |-> sv, rmd |-> rv]
NoBatch == Batch("none", 0, 0)
\* xaction.NewXactNL for rebalance: uuid is the RMD version; cb is the node a
\* completion callback removes, "none" without callback
XactNL(uuid, cb, act) == [uuid |-> uuid, cb |-> cb, act |-> act]

\* identity fields a node may present; every node starts out with DefaultEp
Eps == {"a1", "a2"}
DefaultEp == "a1"
\* Snode.Equals: the node of the map with this id has these identity fields
Equals(m, id, ep) == m.Ep[id] = ep

\* a cluster that runs: all nodes joined and active, p1 primary
RunningSmap ==
  [Version |-> 1, Primary |-> Self,
   Pmap |-> [p \in CluProxies |-> {}], Tmap |-> [t \in CluTargets |-> {}],
   Ep |-> [n \in CluNodes |-> DefaultEp]]
\* the primary at its own startup: alone in its SMap
StartupSmap ==
  [Version |-> 1, Primary |-> Self, Pmap |-> [p \in {Self} |-> {}], Tmap |-> <<>>,
   Ep |-> [n \in {Self} |-> DefaultEp]]

InitCluRest ==
  /\ rmd = [Version |-> 1, TargetIDs |-> {}]
  /\ rebEnabled \in BOOLEAN
  /\ inPrimaryTransition = FALSE
  /\ exited = FALSE
  /\ spPc = "idle"
  /\ spPsi = "nil"
  /\ joinq = {}
  /\ rmq = {}
  /\ toRemoveCh = <<>>
  /\ stoppedCh = 0
  /\ chCap = 0
  /\ inProgress = FALSE
  /\ lastSync = NoBatch
  /\ nls = {}

InitClu ==
  /\ \/ smap = StartupSmap /\ clusterStarted = FALSE
     \/ smap = RunningSmap /\ clusterStarted = TRUE
  /\ InitCluRest

\* the value of the primary's variables in the specifications that do not move them
IdleClu ==
  /\ smap = StartupSmap
  /\ clusterStarted = FALSE
  /\ InitCluRest
  /\ rebEnabled = TRUE

\* the outcome of one SMap or RMD modification: the snapshot published, the
\* RMD owned afterwards, the batch synced (NoBatch: none) and listeners added
ModRes(m, r, b, l) == [smap |-> m, rmd |-> r, sync |-> b, nl |-> l]
NoMod == ModRes(smap, rmd, NoBatch, {})

\* install the outcome of a modification; versions stay within MaxVersion
Apply(res) ==
  /\ res.smap.Version <= MaxVersion
  /\ res.rmd.Version <= MaxVersion
  /\ smap' = res.smap
  /\ rmd' = res.rmd
  /\ lastSync' = IF res.sync = NoBatch THEN lastSync ELSE res.sync
  /\ Cardinality(nls \cup res.nl) <= MaxListeners

\* canRunRebalance: the SMap names p1 primary, the cluster started, rebalance enabled
canRunRebalance == isPrimary(smap, Self) /\ clusterStarted /\ rebEnabled

\* _newRebRMD followed by _syncFinal, for a modify that published clone
newRebRMDSyncFinal(act, clone, skipReb) ==
  LET inc == ~skipReb /\ mustRunRebalance(FALSE, rebEnabled, smap, clone)
      r == IF inc THEN rmdInc(rmd, {}) ELSE rmd
  IN ModRes(clone, r, Batch(act, clone.Version, IF inc THEN r.Version ELSE 0),
            IF inc THEN {XactNL(r.Version, "none", "none")} ELSE {})

\* detectDaemonDuplicate: the old node answers with another identity
\* ("dup"), the probe fails ("err"), or the old node is gone ("none")
Probes == {"dup", "err", "none"}

\* addOrUpdateNode: osi is the node of the SMap with the id of nsi, if any
addOrUpdateNode(osi, equals, keepalive, probe) ==
  IF keepalive
  THEN IF osi = "nil" THEN TRUE
       ELSE IF ~equals THEN probe = "none"
       ELSE FALSE
  ELSE IF osi # "nil" THEN ~equals ELSE TRUE

\* mutant: a self-join is never checked for a duplicate node id
selfJoinDup_off(apiOp, present, equals, probe) == "none"
\* httpclupost, "check for dup node ID": the error a self-join is rejected
\* with, "none" when it goes on
selfJoinDup(apiOp, present, equals, probe) ==
  IF apiOp = "self-join" /\ present /\ ~equals
  THEN IF probe = "err" THEN "probe-error"
       ELSE IF probe = "dup" THEN "duplicate"
       ELSE "none"
  ELSE "none"

\* mutant: a keepalive beat is handled whatever the flag
ignoredInTransition_off(apiOp) == FALSE
\* httpclupost, its first check: a keepalive beat is ignored while the
\* primary is in transition
ignoredInTransition(apiOp) == inPrimaryTransition /\ apiOp = "keepalive"

\* httpclupost with handleJoinKalive, up to the SMap update: the flags the
\* node joins with and what becomes of the request
\*   "ignored"    keepalive while the primary is in transition
\*   "forwarded"  this proxy is not the primary
\*   "probe-error", "duplicate"  rejected self-join
\*   "ok"         nothing to update
\*   "put"        added at once, the cluster has not started
\*   "update"     updateAndDistribute is called
httpclupost(apiOp, id, ep, probe) ==
  LET keepalive == apiOp = "keepalive"
      present == GetNode(smap, id) # "nil"
      equals == present /\ Equals(smap, id, ep)
      flags == IF present THEN NodeFlags(smap, id) ELSE {}
      osi == IF IsProxy(id) THEN GetProxy(smap, id) ELSE GetTarget(smap, id)
      goes == IF IsProxy(id) THEN addOrUpdateNode(osi, equals, keepalive, probe)
              ELSE ~keepalive \/ addOrUpdateNode(osi, equals, keepalive, probe)
      res(st) == [status |-> st, flags |-> flags,
                  heard |-> st = "ok" /\ keepalive /\ equals]
  IN IF ignoredInTransition(apiOp) THEN res("ignored")
     ELSE IF ~isPrimary(smap, Self) THEN res("forwarded")
     ELSE IF selfJoinDup(apiOp, present, equals, probe) # "none"
          THEN res(selfJoinDup(apiOp, present, equals, probe))
     ELSE IF ~goes THEN res("ok")
     ELSE IF ~clusterStarted THEN res("put")
     ELSE res("update")

\* httpclupost, the requests that change the state of the primary: a join or
\* keepalive request of node id with the identity the SMap knows it by
HttpCluPost(apiOp, id) ==
  /\ OnlyClu
  /\ ~exited
  /\ LET o == httpclupost(apiOp, id, DefaultEp, "none")
     IN /\ o.status \in {"put", "update"}
        /\ IF o.status = "put"
           THEN /\ putNode(smap, id, DefaultEp, o.flags).Version <= MaxVersion
                /\ smap' = putNode(smap, id, DefaultEp, o.flags)
                /\ UNCHANGED joinq
           ELSE /\ Cardinality(joinq) + Cardinality(rmq) < MaxPending
                /\ joinq' = joinq \cup {[id |-> id, ep |-> DefaultEp, flags |-> o.flags]}
                /\ UNCHANGED smap
  /\ UNCHANGED <<rmd, clusterStarted, rebEnabled, inPrimaryTransition, exited, spPc,
                 spPsi, rmq, toRemoveCh, stoppedCh, chCap, inProgress, lastSync, nls>>

\* the nodes that send the requests
JoinNodes == {"p2", "t2"}
\* no request handled yet
NoReply == [op |-> "none", id |-> "nil", ep |-> "nil", probe |-> "none", status |-> "none"]
InitJoin == reply = NoReply

\* httpclupost, any request: a join or keepalive request of a node that
\* presents identity fields ep, with the answer of the duplicate probe should
\* the handler make one
JoinRequest(apiOp, id, ep, probe) ==
  /\ UNCHANGED <<rebVars, ttVars, nlVars, msVars, elVars, kaVars, kaConf, gcVars, sigVars, evVars>>
  /\ ~exited
  /\ LET o == httpclupost(apiOp, id, ep, probe)
     IN /\ reply' = [op |-> apiOp, id |-> id, ep |-> ep, probe |-> probe,
                      status |-> o.status]
        /\ kaState' = IF o.heard THEN heardFrom(kaState, id) ELSE kaState
        /\ IF o.status = "put"
           THEN /\ putNode(smap, id, ep, o.flags).Version <= MaxVersion
                /\ smap' = putNode(smap, id, ep, o.flags)
                /\ UNCHANGED joinq
           ELSE IF o.status = "update"
           THEN /\ Cardinality(joinq) < MaxJoins
                /\ joinq' = joinq \cup {[id |-> id, ep |-> ep, flags |-> o.flags]}
                /\ UNCHANGED smap
           ELSE UNCHANGED <<smap, joinq>>
  /\ UNCHANGED <<rmd, clusterStarted, rebEnabled, inPrimaryTransition, exited, spPc,
                 spPsi, rmq, toRemoveCh, stoppedCh, chCap, inProgress, lastSync, nls>>

\* canRunRebalance, the error it returns ("nil": none)
canRunRebalanceErr ==
  IF ~isPrimary(smap, Self) THEN "not-primary"
  ELSE IF ~clusterStarted THEN "not-ready"
  ELSE IF ~rebEnabled THEN "disabled"
  ELSE "nil"

\* mutant: a rebalance that the configuration disables is dropped without error
rebalanceCluster_soft ==
  IF canRunRebalanceErr \notin {"nil", "disabled"} THEN [status |-> "error", res |-> NoMod]
  ELSE IF canRunRebalanceErr = "disabled" \/ CountActiveTargets(smap) < 2
       THEN [status |-> "nothing-to-do", res |-> NoMod]
  ELSE LET r == rmdInc(rmd, {})
       IN [status |-> "rebalance",
           res |-> ModRes(smap, r, Batch("rebalance", 0, r.Version),
                          {XactNL(r.Version, "none", "rebalance")})]
\* rebalanceCluster: the status of the response and what is modified; the RMD
\* is bumped by rmd.modify and synced by metasyncRMD, which adds the listener
rebalanceCluster ==
  IF canRunRebalanceErr \notin {"nil", "disabled"} THEN [status |-> "error", res |-> NoMod]
  ELSE IF CountActiveTargets(smap) < 2 THEN [status |-> "nothing-to-do", res |-> NoMod]
  ELSE LET r == rmdInc(rmd, {})
       IN [status |-> "rebalance",
           res |-> ModRes(smap, r, Batch("rebalance", 0, r.Version),
                          {XactNL(r.Version, "none", "rebalance")})]

\* a user asks for a rebalance (xaction start, kind rebalance)
RebalanceCluster ==
  /\ OnlyJoin
  /\ ~exited
  /\ reply' = [op |-> "rebalance", id |-> "nil", ep |-> "nil", probe |-> "none",
               status |-> rebalanceCluster.status]
  /\ Apply(rebalanceCluster.res)
  /\ nls' = nls \cup rebalanceCluster.res.nl
  /\ UNCHANGED <<clusterStarted, rebEnabled, inPrimaryTransition, exited, spPc, spPsi,
                 joinq, rmq, toRemoveCh, stoppedCh, chCap, inProgress>>

\* mutant: the join never bumps the RMD
updPostInc_never(exists, must) == FALSE

\* _updPost: the RMD is incremented for a target when rebalance can run
updPostInc(exists, must) == canRunRebalance /\ (exists \/ must)

\* updateAndDistribute: modify with _updPre, _updPost, _updFinal
UpdateAndDistribute(j) ==
  /\ OnlyClu
  /\ ~exited
  /\ j \in joinq
  /\ joinq' = joinq \ {j}
  /\ IF ~isPrimary(smap, Self)
     THEN UNCHANGED <<smap, rmd, lastSync, nls>>
     ELSE LET clone == putNode(smap, j.id, j.ep, j.flags)
              exists == putNodeExists(smap, j.id)
              must == mustRunRebalance(FALSE, rebEnabled, smap, clone)
              inc == ~IsProxy(j.id) /\ updPostInc(exists, must)
              r == IF inc THEN rmdInc(rmd, {j.id}) ELSE rmd
              withRmd == inc /\ must
              res == ModRes(clone, r,
                            Batch("join", clone.Version,
                                  IF withRmd \/ IsProxy(j.id) THEN r.Version ELSE 0),
                            IF withRmd THEN {XactNL(r.Version, "none", "none")} ELSE {})
          IN /\ Apply(res)
             /\ nls' = nls \cup res.nl
  /\ UNCHANGED <<clusterStarted, rebEnabled, inPrimaryTransition, exited, spPc,
                 spPsi, rmq, toRemoveCh, stoppedCh, chCap, inProgress>>

\* the ids the failed probes of one sweep push, in channel order
RECURSIVE SeqOf(_)
SeqOf(S) ==
  IF S = {} THEN <<>>
  ELSE LET x == CHOOSE y \in S : TRUE IN <<x>> \o SeqOf(S \ {x})

\* the nodes updateSmap probes: all but self and the nodes in maintenance
KaProbed(m) ==
  {sid \in (DOMAIN m.Tmap \cup DOMAIN m.Pmap) \ {Self} :
     ~IsAnySet(NodeFlags(m, sid), NodeFlagsMaintDecomm)}

\* updateSmap up to wg.Wait: CAS on inProgress, openCh, the probes.  The
\* probes of `failed` exhaust their retries, the probe of `stop` (if any)
\* is interrupted by a Stop signal; both push onto toRemoveCh
KaSweepStart(failed, stop) ==
  /\ OnlyClu
  /\ ~exited
  /\ isPrimary(smap, Self)
  /\ ~inProgress
  /\ inProgress' = TRUE
  /\ LET daemonCnt == Count(smap)
         fresh == chCap = 0 \/ chCap < daemonCnt
     IN /\ failed \subseteq KaProbed(smap)
        /\ stop \in failed \cup {"nil"}
        /\ chCap' = IF fresh THEN 2 * daemonCnt ELSE chCap
        /\ toRemoveCh' = (IF fresh THEN <<>> ELSE toRemoveCh) \o SeqOf(failed)
        /\ stoppedCh' = (IF fresh THEN 0 ELSE stoppedCh) + (IF stop = "nil" THEN 0 ELSE 1)
  /\ UNCHANGED <<smap, rmd, clusterStarted, rebEnabled, inPrimaryTransition, exited,
                 spPc, spPsi, joinq, rmq, lastSync, nls>>

\* proxyKeepalive._pre, the drain loop: the clone and the count of removals
RECURSIVE KaDrain(_, _, _)
KaDrain(clone, ch, cnt) ==
  IF ch = <<>> THEN [m |-> clone, cnt |-> cnt]
  ELSE LET sid == Head(ch) IN
       IF GetProxy(clone, sid) # "nil" THEN KaDrain(delProxy(clone, sid), Tail(ch), cnt + 1)
       ELSE IF GetTarget(clone, sid) # "nil"
            THEN KaDrain(delTarget(clone, sid), Tail(ch), cnt + 1)
            ELSE KaDrain(clone, Tail(ch), cnt)

\* mutant: the eviction bumps the RMD and sends it with the SMap
KaFinal_withRMD(clone) ==
  ModRes(clone, rmdInc(rmd, {}), Batch("keepalive", clone.Version, rmd.Version + 1), {})

\* proxyKeepalive._final: the batch holds the SMap alone; there is no post hook
KaFinal(clone) == ModRes(clone, rmd, Batch("keepalive", clone.Version, 0), {})

\* mutant: closeCh leaves the channels and what they hold in place
closeCh_keep == [toRemoveCh |-> toRemoveCh, stoppedCh |-> 0, chCap |-> chCap]
\* proxyKeepalive.closeCh: both channels are closed and set to nil
closeCh == [toRemoveCh |-> <<>>, stoppedCh |-> 0, chCap |-> 0]

\* mutant: _pre goes on when it has removed nothing
nothingToDo_never(cnt) == FALSE
\* proxyKeepalive._pre after the drain: "nothing to do" is an error
nothingToDo(cnt) == cnt = 0

\* updateSmap after wg.Wait: closeCh on Stop, else modify with _pre and _final
updateSmapEnd ==
  /\ ~exited
  /\ inProgress
  /\ inProgress' = FALSE
  /\ IF stoppedCh > 0
     THEN /\ toRemoveCh' = closeCh.toRemoveCh
          /\ stoppedCh' = closeCh.stoppedCh
          /\ chCap' = closeCh.chCap
          /\ UNCHANGED <<smap, rmd, lastSync>>
     ELSE /\ UNCHANGED <<stoppedCh, chCap>>
          /\ IF Len(toRemoveCh) = 0 \/ ~isPrimary(smap, Self)
             THEN UNCHANGED <<smap, rmd, lastSync, toRemoveCh>>
             ELSE LET d == KaDrain(smap, toRemoveCh, 0)
                  IN /\ toRemoveCh' = <<>>
                     /\ IF nothingToDo(d.cnt)
                        THEN UNCHANGED <<smap, rmd, lastSync>>
                        ELSE Apply(KaFinal(d.m))
  /\ UNCHANGED <<clusterStarted, rebEnabled, inPrimaryTransition, exited,
                 spPc, spPsi, joinq, rmq, nls>>

\* a sweep of the primary ends
KaSweepEnd == OnlyClu /\ updateSmapEnd

\* unregNode: modify with _unregNodePre, _newRebRMD, _syncFinal
unregNode(act, sid, skipReb) ==
  IF ~isPrimary(smap, Self) \/ GetNode(smap, sid) = "nil" THEN NoMod
  ELSE IF IsProxy(sid) THEN newRebRMDSyncFinal(act, delProxy(smap, sid), skipReb)
  ELSE IF ~clusterStarted THEN NoMod
  ELSE newRebRMDSyncFinal(act, delTarget(smap, sid), skipReb)

\* callRmSelf: the node is asked to remove itself; decommission and the
\* removal callback then delete it from the SMap whatever it answered
callRmSelf(act, sid, skipReb) ==
  IF GetNode(smap, sid) = "nil" THEN NoMod
  ELSE IF act \in {"decommission-node", "callback-rm"} THEN unregNode(act, sid, skipReb)
  ELSE NoMod

\* httpcludel: a node is removed from the SMap at once
HttpCluDel(sid) ==
  /\ OnlyClu
  /\ ~exited
  /\ GetNode(smap, sid) # "nil"
  /\ ~isPrimary(smap, sid)
  /\ isPrimary(smap, Self)
  /\ LET res == callRmSelf("callback-rm", sid, FALSE)
     IN /\ Apply(res)
        /\ nls' = nls \cup res.nl
  /\ UNCHANGED <<clusterStarted, rebEnabled, inPrimaryTransition, exited, spPc, spPsi,
                 joinq, rmq, toRemoveCh, stoppedCh, chCap, inProgress>>

\* markMaintenance: modify that sets the flag of the action, then _syncFinal
markMaintenance(act, sid) ==
  IF ~isPrimary(smap, Self) THEN NoMod
  ELSE LET flags == IF act = "decommission-node" THEN {"Decomm"} ELSE {"Maint"}
           clone == setNodeFlags(smap, sid, flags)
       IN ModRes(clone, rmd, Batch(act, clone.Version, 0), {})

\* rmNode: start-maintenance, decommission or shutdown of node sid, up to
\* and including markMaintenance
RmNode(act, sid) ==
  /\ OnlyClu
  /\ ~exited
  /\ isPrimary(smap, Self)
  /\ GetNode(smap, sid) # "nil"
  /\ ~PresentInMaint(smap, sid)
  /\ sid # Self
  /\ Cardinality(joinq) + Cardinality(rmq) < MaxPending
  /\ Apply(markMaintenance(act, sid))
  /\ rmq' = IF IsProxy(sid) /\ act = "start-maintenance" THEN rmq
            ELSE rmq \cup {[sid |-> sid, act |-> act]}
  /\ UNCHANGED <<clusterStarted, rebEnabled, inPrimaryTransition, exited, spPc, spPsi,
                 joinq, toRemoveCh, stoppedCh, chCap, inProgress, nls>>

\* mutant: the count of active targets is not looked at
rebalanceAndRmSelf_always(act, sid) ==
  LET r == rmdInc(rmd, {})
  IN ModRes(smap, r, Batch(act, 0, r.Version), {XactNL(r.Version, "none", act)})
\* rebalanceAndRmSelf: with fewer than 2 active targets the node is removed
\* without rebalance, else the RMD is bumped and synced and a listener
\* registered, with a removal callback for decommission and shutdown
rebalanceAndRmSelf(act, sid) ==
  IF CountActiveTargets(smap) < 2 THEN callRmSelf(act, sid, TRUE)
  ELSE LET r == rmdInc(rmd, {})
           cb == IF act \in {"decommission-node", "shutdown-node"} THEN sid ELSE "none"
       IN ModRes(smap, r, Batch(act, 0, r.Version), {XactNL(r.Version, cb, act)})

\* the rest of rmNode: callRmSelf for a proxy, rebalanceAndRmSelf for a target
RmNodeFinish(e) ==
  /\ OnlyClu
  /\ ~exited
  /\ e \in rmq
  /\ rmq' = rmq \ {e}
  /\ LET res == IF IsProxy(e.sid) THEN callRmSelf(e.act, e.sid, TRUE)
                ELSE rebalanceAndRmSelf(e.act, e.sid)
     IN /\ Apply(res)
        /\ nls' = nls \cup res.nl
  /\ UNCHANGED <<clusterStarted, rebEnabled, inPrimaryTransition, exited, spPc, spPsi,
                 joinq, toRemoveCh, stoppedCh, chCap, inProgress>>

\* mutant: the callback does not look at how the rebalance ended
removeAfterRebalance_unchecked(l, err, aborted) ==
  [called |-> TRUE, res |-> callRmSelf(l.act, l.cb, TRUE)]
\* removeAfterRebalance: the callback of a listener with one; callRmSelf is
\* called unless the rebalance ended with an error or aborted
removeAfterRebalance(l, err, aborted) ==
  IF err \/ aborted THEN [called |-> FALSE, res |-> NoMod]
  ELSE [called |-> TRUE, res |-> callRmSelf(l.act, l.cb, TRUE)]

\* the rebalance of listener l ends; removeAfterRebalance runs as its callback
NLDone(l, ok) ==
  /\ OnlyClu
  /\ ~exited
  /\ l \in nls
  /\ LET res == IF l.cb # "none" THEN removeAfterRebalance(l, ~ok, FALSE).res ELSE NoMod
     IN /\ Apply(res)
        /\ nls' = (nls \ {l}) \cup res.nl
  /\ UNCHANGED <<clusterStarted, rebEnabled, inPrimaryTransition, exited, spPc, spPsi,
                 joinq, rmq, toRemoveCh, stoppedCh, chCap, inProgress>>

\* the rebalance of listener l ends with this error and abort status; its
\* callback, if any, runs; nlLast keeps what ended and what the callback did
NLDoneRm(l, err, aborted) ==
  /\ UNCHANGED <<rebVars, ttVars, msVars, elVars, joinVars, kaVars, ktVars, gcVars, sigVars, evVars>>
  /\ UNCHANGED <<nlFinished, nlAborted, nlErr, nlStats, nlEndTime, nlInNls, nlInFin,
                 nlCbCount, nlPendDone, nlLscPc, nlSmapT>>
  /\ ~exited
  /\ l \in nls
  /\ LET r == IF l.cb # "none" THEN removeAfterRebalance(l, err, aborted)
               ELSE [called |-> FALSE, res |-> NoMod]
     IN /\ Apply(r.res)
        /\ nls' = (nls \ {l}) \cup r.res.nl
        /\ nlLast' = [op |-> "rebalance-done", from |-> l.cb, ab |-> aborted,
                      err |-> err, uuid |-> l.uuid, rm |-> r.called]
  /\ UNCHANGED <<clusterStarted, rebEnabled, inPrimaryTransition, exited, spPc, spPsi,
                 joinq, rmq, toRemoveCh, stoppedCh, chCap, inProgress>>

\* stopMaintenance and cancelMaintenance: modify with _cancelMaintPre,
\* _newRebRMD, _syncFinal
StopMaintenance(sid, skipReb) ==
  /\ OnlyClu
  /\ ~exited
  /\ isPrimary(smap, Self)
  /\ GetNode(smap, sid) # "nil"
  /\ PresentInMaint(smap, sid)
  /\ LET res == newRebRMDSyncFinal("stop-maintenance",
                                   clearNodeFlags(smap, sid, NodeFlagsMaintDecomm), skipReb)
     IN /\ Apply(res)
        /\ nls' = nls \cup res.nl
  /\ UNCHANGED <<clusterStarted, rebEnabled, inPrimaryTransition, exited, spPc, spPsi,
                 joinq, rmq, toRemoveCh, stoppedCh, chCap, inProgress>>

\* the pre hook of cluSetPrimary: clone.Primary = psi, nothing else
SetPrimaryPre(clone, psi) == [clone EXCEPT !.Primary = psi]

\* cluSetPrimary up to the prepare broadcast: the candidate is validated
\* against the SMap snapshot and the prepare requests are sent
SetPrimaryValidate(proxyid) ==
  /\ OnlyClu
  /\ ~exited
  /\ spPc = "idle"
  /\ isPrimary(smap, Self)
  /\ GetProxy(smap, proxyid) # "nil"
  /\ proxyid # Self
  /\ ~PresentInMaint(smap, proxyid)
  /\ clusterStarted
  /\ spPc' = "prepare"
  /\ spPsi' = proxyid
  /\ UNCHANGED <<smap, rmd, clusterStarted, rebEnabled, inPrimaryTransition, exited,
                 joinq, rmq, toRemoveCh, stoppedCh, chCap, inProgress, lastSync, nls>>

\* the prepare results are in: any failure aborts, else inPrimaryTransition
\* is set and the SMap is modified (no post, no final)
SetPrimaryPrepared(ok) ==
  /\ OnlyClu
  /\ ~exited
  /\ spPc = "prepare"
  /\ IF ok
     THEN /\ inPrimaryTransition' = TRUE
          /\ smap' = SetPrimaryPre(smap, spPsi)
          /\ spPc' = "commit"
          /\ UNCHANGED spPsi
     ELSE /\ spPc' = "idle"
          /\ spPsi' = "nil"
          /\ UNCHANGED <<smap, inPrimaryTransition>>
  /\ UNCHANGED <<rmd, clusterStarted, rebEnabled, exited,
                 joinq, rmq, toRemoveCh, stoppedCh, chCap, inProgress, lastSync, nls>>

\* the commit results are in: the process exits if the new primary failed,
\* else the deferred inPrimaryTransition.Store(false) runs
SetPrimaryCommitted(okNew) ==
  /\ OnlyClu
  /\ ~exited
  /\ spPc = "commit"
  /\ spPc' = "idle"
  /\ spPsi' = "nil"
  /\ IF okNew
     THEN inPrimaryTransition' = FALSE /\ UNCHANGED exited
     ELSE exited' = TRUE /\ UNCHANGED inPrimaryTransition
  /\ UNCHANGED <<smap, rmd, clusterStarted, rebEnabled,
                 joinq, rmq, toRemoveCh, stoppedCh, chCap, inProgress, lastSync, nls>>

\* the primary finishes its startup
ClusterStart ==
  /\ OnlyClu
  /\ ~exited
  /\ ~clusterStarted
  /\ clusterStarted' = TRUE
  /\ UNCHANGED <<smap, rmd, rebEnabled, inPrimaryTransition, exited, spPc, spPsi,
                 joinq, rmq, toRemoveCh, stoppedCh, chCap, inProgress, lastSync, nls>>

----------------------------------------------------------------------------
(* Administrative set-primary across the proxies of one cluster            *)

\* set-primary requests issued over one run
MaxRequests == 2
ElRequests == 1..MaxRequests
ElIdle == [pc |-> "idle", at |-> "nil", psi |-> "nil", pend |-> {}, newFailed |-> FALSE]

InitEl ==
  /\ elSmap = [p \in Proxies |-> [Version |-> 1, Primary |-> "p1"]]
  /\ elTransition = [p \in Proxies |-> FALSE]
  /\ elExited = {}
  /\ elReq = [r \in ElRequests |-> ElIdle]
  /\ elInflight = {}
  /\ elDemoted = {}

\* cluSetPrimary at proxy `at`, up to the prepare broadcast.  forwardCP lets
\* the request through only where the SMap names `at` primary; the candidate
\* is read from that SMap; whether a transition is in progress is not looked at
ElValidate(r, at, proxyid) ==
  /\ OnlyEl
  /\ at \notin elExited
  /\ elReq[r].pc = "idle"
  /\ isPrimary(elSmap[at], at)
  /\ proxyid # at
  /\ elReq' = [elReq EXCEPT ![r] = [pc |-> "prepare", at |-> at, psi |-> proxyid,
                                    pend |-> {}, newFailed |-> FALSE]]
  /\ UNCHANGED <<elSmap, elTransition, elExited, elInflight, elDemoted>>

\* mutant: the flag is stored before the prepare results are looked at
transitionAfterPrepare_early(ok, cur) == TRUE
\* cluSetPrimary, inPrimaryTransition of the proxy once the prepare results
\* are in: stored after the loop that returns on the first failure
transitionAfterPrepare(ok, cur) == IF ok THEN TRUE ELSE cur

\* the prepare results are in: a failure aborts the request; else
\* inPrimaryTransition is set
ElPrepared(r, ok) ==
  /\ OnlyEl
  /\ elReq[r].pc = "prepare"
  /\ elReq[r].at \notin elExited
  /\ LET at == elReq[r].at IN
     /\ elTransition' = [elTransition EXCEPT ![at] = transitionAfterPrepare(ok, @)]
     /\ elReq' = [elReq EXCEPT ![r].pc = IF ok THEN "modify" ELSE "aborted"]
  /\ UNCHANGED <<elSmap, elExited, elInflight, elDemoted>>

\* the local changes: the SMap is modified by SetPrimaryPre, whose hook
\* demotes the metasyncer, and the commit requests are sent
ElModify(r) ==
  /\ OnlyEl
  /\ elReq[r].pc = "modify"
  /\ elReq[r].at \notin elExited
  /\ LET at == elReq[r].at IN
     /\ elSmap' = [elSmap EXCEPT ![at] = SetPrimaryPre(@, elReq[r].psi)]
     /\ elDemoted' = elDemoted \cup {at}
     /\ elReq' = [elReq EXCEPT ![r].pc = "commit", ![r].pend = Proxies \ {at}]
  /\ UNCHANGED <<elTransition, elExited, elInflight>>

\* becomeNewPrimary: the candidate names itself primary in its own SMap
\* under the next version
becomeNewPrimary(m, self) == [m EXCEPT !.Primary = self, !.Version = @ + 1]

\* a node handles the commit request of r, or fails to.  The candidate
\* becomes the new primary and syncs its SMap; any other node records the
\* candidate as primary
ElCommitAt(r, to, ok) ==
  /\ OnlyEl
  /\ elReq[r].pc = "commit"
  /\ to \in elReq[r].pend
  /\ LET psi == elReq[r].psi
         done == ok /\ to \notin elExited
     IN /\ elReq' = [elReq EXCEPT ![r].pend = @ \ {to},
                                  ![r].newFailed = @ \/ (to = psi /\ ~done)]
        /\ IF ~done THEN UNCHANGED <<elSmap, elInflight>>
           ELSE IF to = psi
           THEN /\ elSmap' = [elSmap EXCEPT ![to] = becomeNewPrimary(@, to)]
                /\ elInflight' = elInflight \cup {becomeNewPrimary(elSmap[to], to)}
           ELSE /\ elSmap' = [elSmap EXCEPT ![to] = SetPrimaryPre(@, psi)]
                /\ UNCHANGED elInflight
  /\ UNCHANGED <<elTransition, elExited, elDemoted>>

\* the commit results are in at the old primary: it exits if the new
\* primary failed, else its deferred inPrimaryTransition.Store(false) runs
ElCommitted(r) ==
  /\ OnlyEl
  /\ elReq[r].pc = "commit"
  /\ elReq[r].pend = {}
  /\ LET at == elReq[r].at IN
     /\ at \notin elExited
     /\ IF elReq[r].newFailed
        THEN elExited' = elExited \cup {at} /\ UNCHANGED elTransition
        ELSE elTransition' = [elTransition EXCEPT ![at] = FALSE] /\ UNCHANGED elExited
  /\ elReq' = [elReq EXCEPT ![r].pc = "done"]
  /\ UNCHANGED <<elSmap, elInflight, elDemoted>>

\* a proxy receives an SMap synced by a new primary and installs it if its
\* version is greater than that of the SMap it holds
ElReceive(to, m) ==
  /\ OnlyEl
  /\ to \notin elExited
  /\ m \in elInflight
  /\ elSmap' = [elSmap EXCEPT ![to] = IF m.Version > @.Version THEN m ELSE @]
  /\ UNCHANGED <<elTransition, elExited, elReq, elInflight, elDemoted>>

----------------------------------------------------------------------------
(* The keepaliver: Run, Stop, register and the probes of a primary sweep   *)

kaNumRetries == 3

\* what sendKeepalive or Health comes back with
Errs == {"nil", "unreachable", "other"}
\* the peers of the primary
KaPeers == CluNodes \ {Self}
NoProbes == [sid \in KaPeers |-> [pc |-> "none", i |-> 0]]

\* no sender is at the control channel
IdleSig == sendPc = "idle"

\* the tracker has no record of a peer: the map lookup says !ok
NoRec == [ok |-> FALSE, count |-> 0, last |-> 0, total |-> 0]
InitEv == ktRec = [sid \in KaPeers |-> NoRec] /\ now = 0
IdleEv == InitEv

InitKaRest ==
  /\ runPc = "waitStats"
  /\ trig = "none"
  /\ ctl = "open"
  /\ tickerPaused = FALSE
  /\ regI = 0
  /\ regRes = "none"
  /\ primaryFail = FALSE
  /\ pr = NoProbes
  /\ timedOut = {}
\* the keepaliver of the primary, or that of a target or non-primary proxy
InitKa == kaRole \in {"primary", "heartbeat"} /\ InitKaRest /\ IdleKt /\ IdleGc /\ IdleSig /\ IdleEv
\* the value of the keepaliver's variables in the specifications that do not move them
IdleKa == kaRole = "primary" /\ InitKaRest /\ IdleKt /\ IdleGc /\ IdleSig /\ IdleEv

\* keepalive.Run, what becomes of the loop when doKeepalive returns: the
\* result counts in the kaErrorMsg case alone, the ticker case drops it
runAfter(stopped) == IF trig = "error" /\ stopped THEN "returned" ELSE "select"

\* what can start a round: the ticker unless it is stopped, an error report
\* unless the control channel is closed
canTrigger(trigger) ==
  IF trigger = "ticker" THEN ~tickerPaused ELSE ctl # "closed"

\* keepalive.waitStatsRunner: the stats runner has started
KaStartedUp ==
  /\ OnlyKa
  /\ runPc = "waitStats"
  /\ runPc' = "select"
  /\ UNCHANGED <<kaRole, trig, ctl, tickerPaused, regI, regRes, primaryFail, pr, timedOut>>
  /\ UNCHANGED cluVars

\* keepalive.Stop is called: it blocks in its send on the unbuffered channel
KaStop ==
  /\ OnlyKa
  /\ ctl = "open"
  /\ ctl' = "stopping"
  /\ UNCHANGED <<kaRole, runPc, trig, tickerPaused, regI, regRes, primaryFail, pr, timedOut>>
  /\ UNCHANGED cluVars

\* waitStatsRunner or the select of Run receives kaStopMsg; Stop closes the channel
KaRunStop ==
  /\ OnlyKa
  /\ ctl = "stopping"
  /\ runPc \in {"waitStats", "select"}
  /\ ctl' = "closed"
  /\ runPc' = "returned"
  /\ UNCHANGED <<kaRole, trig, tickerPaused, regI, regRes, primaryFail, pr, timedOut>>
  /\ UNCHANGED cluVars

\* keepalive.send of kaSuspendMsg or kaResumeMsg, received by the select of Run
KaSend(msg) ==
  /\ OnlyKa
  /\ ctl = "open"
  /\ runPc = "select"
  /\ tickerPaused' = (msg = "suspend")
  /\ UNCHANGED <<kaRole, runPc, trig, ctl, regI, regRes, primaryFail, pr, timedOut>>
  /\ UNCHANGED cluVars

\* mutant: register gives up after the first retry
registerRetry_once(i, err, stopping) ==
  IF err = "nil" THEN [i |-> i + 1, ret |-> "ok"] ELSE [i |-> i + 1, ret |-> "exhausted"]
\* keepalive.register, one turn of its retry loop on ticker.C
registerRetry(i, err, stopping) ==
  LET j == i + 1
  IN IF err = "nil" THEN [i |-> j, ret |-> "ok"]
     ELSE IF j = kaNumRetries THEN [i |-> j, ret |-> "exhausted"]
     ELSE IF err = "unreachable" THEN [i |-> j, ret |-> "continue"]
     ELSE IF stopping THEN [i |-> j, ret |-> "stopping"]
     ELSE [i |-> j, ret |-> "continue"]

\* doKeepalive of a target or non-primary proxy, up to the first
\* sendKeepalive of register
beat(trigger, err) ==
  /\ regI' = 0
  /\ primaryFail' = FALSE
  /\ IF err = "nil"
     THEN regRes' = "ok" /\ UNCHANGED <<runPc, trig>>
     ELSE regRes' = "none" /\ runPc' = "register" /\ trig' = trigger
  /\ UNCHANGED <<kaRole, ctl, tickerPaused, pr, timedOut>>

KaBeat(trigger, err) ==
  /\ OnlyKa
  /\ kaRole = "heartbeat"
  /\ runPc = "select"
  /\ canTrigger(trigger)
  /\ beat(trigger, err)
  /\ UNCHANGED cluVars

\* register, a retry; doKeepalive calls onPrimaryFail when register says stopped
registerTurn(err, stopping) ==
  /\ runPc = "register"
  /\ LET r == registerRetry(regI, err, stopping)
     IN /\ regI' = r.i
        /\ IF r.ret = "continue"
           THEN UNCHANGED <<regRes, primaryFail, runPc, trig>>
           ELSE /\ regRes' = r.ret
                /\ primaryFail' = (r.ret # "ok")
                /\ runPc' = runAfter(r.ret # "ok")
                /\ trig' = "none"
  /\ UNCHANGED <<kaRole, ctl, tickerPaused, pr, timedOut>>

KaRegisterRetry(err, stopping) ==
  /\ OnlyKa
  /\ registerTurn(err, stopping)
  /\ UNCHANGED cluVars

\* mutant: the round trip measured is reported whatever the error
retrySample_measured(connErr, delta) == delta
\* register, the sample of a retry: the worst case, maxKeepalive, when the
\* error is a retriable connection error, else the round trip measured
retrySample(connErr, delta) == IF connErr THEN maxKeepalive ELSE delta

\* register, a retry together with its updateTimeoutForDaemon(primaryID, delta);
\* connErr tells whether the error is a retriable connection error
KaRegisterRetryTT(err, stopping, connErr, delta) ==
  /\ UNCHANGED <<rebVars, nlVars, msVars, cluVars, elVars, joinVars, ktVars, gcVars, sigVars, evVars>>
  /\ connErr => err # "nil"
  /\ registerTurn(err, stopping)
  /\ timeoutStats' = SetTimeoutStats(timeoutStats, "p1",
        updateTimeoutForDaemon(timeoutStatsForDaemon(timeoutStats, "p1", maxKeepalive),
                               retrySample(connErr, delta), maxKeepalive))
  /\ UNCHANGED maxKeepalive

\* register, its retry loop receives kaStopMsg and returns stopped
KaRegisterStop ==
  /\ OnlyKa
  /\ runPc = "register"
  /\ ctl = "stopping"
  /\ ctl' = "closed"
  /\ regRes' = "stopped"
  /\ primaryFail' = TRUE
  /\ runPc' = runAfter(TRUE)
  /\ trig' = "none"
  /\ UNCHANGED <<kaRole, tickerPaused, regI, pr, timedOut>>
  /\ UNCHANGED cluVars

\* the messages of onerr and send
SigMsgs == {"error", "suspend", "resume"}
SigFrame == UNCHANGED <<rebVars, ttVars, nlVars, msVars, cluVars, elVars, joinVars, ktVars,
                        gcVars, evVars>>

\* keepalive.onerr with an unreachable error, keepalive.send: the goroutine
\* sends on controlCh; the send panics if the channel is closed, else it
\* blocks until a receive takes the message
SigSend(msg) ==
  /\ SigFrame
  /\ sendPc = "idle"
  /\ sendPc' = IF ctl = "closed" THEN "panicked" ELSE msg
  /\ UNCHANGED kaVars

\* Stop closes the channel under a blocked sender: the send panics
SigClosedUnderSender ==
  /\ SigFrame
  /\ sendPc \in SigMsgs
  /\ ctl = "closed"
  /\ sendPc' = "panicked"
  /\ UNCHANGED kaVars

\* the select of Run receives the sender's message: suspend and resume set
\* tickerPaused, kaErrorMsg calls doKeepalive unless the last check was less
\* than KeepaliveRetryDuration ago
SigRunReceives(err, debounced) ==
  /\ SigFrame
  /\ kaRole = "heartbeat"
  /\ runPc = "select"
  /\ ctl # "closed"
  /\ sendPc \in SigMsgs
  /\ sendPc' = "idle"
  /\ IF sendPc = "error"
     THEN IF debounced
          THEN UNCHANGED kaVars
          ELSE beat("error", err)
     ELSE /\ tickerPaused' = (sendPc = "suspend")
          /\ UNCHANGED <<kaRole, runPc, trig, ctl, regI, regRes, primaryFail, pr, timedOut>>

\* the select of register's retry loop receives the sender's message and,
\* as it is not kaStopMsg, drops it
SigRegisterReceives ==
  /\ SigFrame
  /\ runPc = "register"
  /\ ctl # "closed"
  /\ sendPc \in SigMsgs
  /\ sendPc' = "idle"
  /\ UNCHANGED kaVars

\* proxyKeepalive.openCh
openCh(daemonCnt) ==
  IF chCap = 0 \/ chCap < daemonCnt
  THEN [toRemoveCh |-> <<>>, stoppedCh |-> 0, chCap |-> 2 * daemonCnt]
  ELSE [toRemoveCh |-> toRemoveCh, stoppedCh |-> stoppedCh, chCap |-> chCap]

\* doKeepalive of the primary: updateSmap up to the start of the probes; the
\* peers in `late` have not been heard from within the interval
KaSweepBegin(trigger, late) ==
  /\ OnlyKa
  /\ kaRole = "primary"
  /\ runPc = "select"
  /\ canTrigger(trigger)
  /\ ~exited
  /\ isPrimary(smap, Self)
  /\ ~inProgress
  /\ inProgress' = TRUE
  /\ toRemoveCh' = openCh(Count(smap)).toRemoveCh
  /\ stoppedCh' = openCh(Count(smap)).stoppedCh
  /\ chCap' = openCh(Count(smap)).chCap
  /\ late \subseteq KaPeers
  /\ timedOut' = late
  /\ pr' = [sid \in KaPeers |->
              [pc |-> IF sid \in late \cap KaProbed(smap) THEN "start" ELSE "none", i |-> 0]]
  /\ runPc' = "sweep"
  /\ trig' = trigger
  /\ UNCHANGED <<kaRole, ctl, tickerPaused, regI, regRes, primaryFail>>
  /\ UNCHANGED <<smap, rmd, clusterStarted, rebEnabled, inPrimaryTransition, exited,
                 spPc, spPsi, joinq, rmq, lastSync, nls>>

\* proxyKeepalive.retry, the head of its loop: a peer heard from in the
\* meantime is fine
retryHead(sid) == IF sid \notin timedOut THEN "ok" ELSE "retry"

\* proxyKeepalive.retry, one turn of its loop on ticker.C
retry(sid, i, err) ==
  IF err = "nil" THEN [i |-> i, pc |-> "ok"]
  ELSE IF i + 1 = kaNumRetries THEN [i |-> i + 1, pc |-> "failed"]
  ELSE [i |-> i + 1, pc |-> retryHead(sid)]

\* proxyKeepalive.do with _pingRetry: the first Health call of a probe
KaProbeFirst(sid, err) ==
  /\ OnlyKa
  /\ runPc = "sweep"
  /\ pr[sid].pc = "start"
  /\ pr' = [pr EXCEPT ![sid].pc = IF stoppedCh > 0 THEN "skipped"
                                  ELSE IF err = "nil" THEN "ok"
                                  ELSE retryHead(sid)]
  /\ UNCHANGED <<kaRole, runPc, trig, ctl, tickerPaused, regI, regRes, primaryFail, timedOut>>
  /\ UNCHANGED cluVars

\* a retry of a probe; do pushes the id of a failed peer onto toRemoveCh
KaProbeRetry(sid, err) ==
  /\ OnlyKa
  /\ runPc = "sweep"
  /\ pr[sid].pc = "retry"
  /\ pr' = [pr EXCEPT ![sid] = retry(sid, pr[sid].i, err)]
  /\ toRemoveCh' = IF retry(sid, pr[sid].i, err).pc = "failed"
                   THEN Append(toRemoveCh, sid) ELSE toRemoveCh
  /\ UNCHANGED <<kaRole, runPc, trig, ctl, tickerPaused, regI, regRes, primaryFail, timedOut>>
  /\ UNCHANGED <<smap, rmd, clusterStarted, rebEnabled, inPrimaryTransition, exited,
                 spPc, spPsi, joinq, rmq, stoppedCh, chCap, inProgress, lastSync, nls>>

\* the retry loop of a probe receives kaStopMsg: retry returns (false, true)
\* and do pushes onto stoppedCh and onto toRemoveCh
KaProbeStop(sid) ==
  /\ OnlyKa
  /\ runPc = "sweep"
  /\ pr[sid].pc = "retry"
  /\ ctl = "stopping"
  /\ ctl' = "closed"
  /\ pr' = [pr EXCEPT ![sid].pc = "stopped"]
  /\ stoppedCh' = stoppedCh + 1
  /\ toRemoveCh' = Append(toRemoveCh, sid)
  /\ UNCHANGED <<kaRole, runPc, trig, tickerPaused, regI, regRes, primaryFail, timedOut>>
  /\ UNCHANGED <<smap, rmd, clusterStarted, rebEnabled, inPrimaryTransition, exited,
                 spPc, spPsi, joinq, rmq, chCap, inProgress, lastSync, nls>>

\* keepalive.heardFrom: a keepalive of the peer reaches the primary while
\* the sweep is on
KaHeard(sid) ==
  /\ OnlyKa
  /\ runPc = "sweep"
  /\ pr[sid].pc \in {"start", "retry"}
  /\ sid \in timedOut
  /\ timedOut' = timedOut \ {sid}
  /\ UNCHANGED <<kaRole, runPc, trig, ctl, tickerPaused, regI, regRes, primaryFail, pr>>
  /\ UNCHANGED cluVars

\* updateSmap after wg.Wait, and Run after doKeepalive
KaSweepDone ==
  /\ OnlyKa
  /\ runPc = "sweep"
  /\ \A sid \in KaPeers : pr[sid].pc \notin {"start", "retry"}
  /\ updateSmapEnd
  /\ runPc' = runAfter(stoppedCh > 0)
  /\ trig' = "none"
  /\ pr' = NoProbes
  /\ timedOut' = {}
  /\ UNCHANGED <<kaRole, ctl, tickerPaused, regI, regRes, primaryFail>>

\* HBTracker.TimedOut, AvgTracker.TimedOut at time tm
trackerTimedOut(conf, rec, tm) ==
  IF conf.Name = "heartbeat" THEN ~rec.ok \/ tm - rec.last > conf.Interval
  ELSE IF ~rec.ok THEN TRUE
  ELSE IF rec.count = 0 THEN FALSE
  ELSE tm - rec.last > conf.Factor * (rec.total \div rec.count)

\* HBTracker.HeardFrom, AvgTracker.HeardFrom at time tm
trackerHeardFrom(conf, rec, tm, reset) ==
  IF conf.Name = "heartbeat" THEN [rec EXCEPT !.ok = TRUE, !.last = tm]
  ELSE IF reset \/ ~rec.ok THEN [ok |-> TRUE, count |-> 0, last |-> tm, total |-> 0]
  ELSE [ok |-> TRUE, count |-> rec.count + 1, last |-> tm,
        total |-> rec.total + (tm - rec.last)]

\* the peers that keep answering and keep sending keepalives, and the one
\* that goes silent
EvAlive == {"p2", "t2"}
EvSilent == "t1"
EvFrame == UNCHANGED <<rebVars, ttVars, nlVars, msVars, cluVars, elVars, joinVars, kaVars,
                       ktVars, gcVars, sigVars>>

\* one keepalive interval passes; the keepalives of the peers that are
\* alive arrive
EvTime ==
  /\ EvFrame
  /\ now < 6 * kaConf.Interval
  /\ now' = now + kaConf.Interval
  /\ ktRec' = [sid \in KaPeers |->
                IF sid \in EvAlive THEN trackerHeardFrom(kaConf, ktRec[sid], now', FALSE)
                ELSE ktRec[sid]]

\* a join (reset) or keepalive of the peer that is about to go silent: it is
\* heard from during the first two intervals, once per interval at most
EvHeard(reset) ==
  /\ EvFrame
  /\ now < 2 * kaConf.Interval
  /\ ~ktRec[EvSilent].ok \/ ktRec[EvSilent].last < now
  /\ ktRec' = [ktRec EXCEPT ![EvSilent] = trackerHeardFrom(kaConf, @, now, reset)]
  /\ UNCHANGED now

\* a sweep triggered by the ticker: isTimeToPing asks the tracker
EvSweepBegin ==
  /\ KaSweepBegin("ticker", {sid \in KaPeers : trackerTimedOut(kaConf, ktRec[sid], now)})

\* the steps of the primary's keepaliver; the silent peer fails every Health call
EvRuns ==
  \/ KaStartedUp
  \/ EvSweepBegin
  \/ \E sid \in EvAlive : KaProbeFirst(sid, "nil")
  \/ \E err \in Errs \ {"nil"} : KaProbeFirst(EvSilent, err)
  \/ \E err \in Errs \ {"nil"} : KaProbeRetry(EvSilent, err)
  \/ KaSweepDone
NextEvict ==
  \/ EvRuns
  \/ EvTime
  \/ \E reset \in BOOLEAN : EvHeard(reset)
EvConfs ==
  {conf \in KaConfs : conf.Interval = 10 /\ conf.Factor = 3
                        /\ conf.MaxKeepalive = MaxKeepaliveCfg}
InitSpecEvict ==
  /\ IdleReb /\ InitTT /\ InitNL /\ InitMS /\ InitEl /\ InitJoin
  /\ smap = RunningSmap /\ clusterStarted = TRUE /\ InitCluRest /\ rebEnabled
  /\ kaRole = "primary" /\ InitKaRest
  /\ kaConf \in EvConfs /\ kaState = newKeepalive(kaConf)
  /\ IdleGc /\ IdleSig /\ InitEv
SpecEvict == InitSpecEvict /\ [][NextEvict]_vars
\* the ticker of Run keeps firing, the probes make progress, time passes
SpecEvictFair == SpecEvict /\ WF_vars(EvRuns) /\ WF_vars(EvTime)

NextReb == RebCall
InitSpecReb == InitReb /\ InitTT /\ InitNL /\ InitMS /\ IdleClu /\ InitEl /\ InitJoin /\ IdleKa
SpecReb == InitSpecReb /\ [][NextReb]_vars

NextTT ==
  \/ \E sid \in TTPeers : TTLookup(sid)
  \/ \E sid \in TTPeers, d \in RTTSamples : TTUpdate(sid, d)
InitSpecTT == IdleReb /\ InitTT /\ InitNL /\ InitMS /\ IdleClu /\ InitEl /\ InitJoin /\ IdleKa
SpecTT == InitSpecTT /\ [][NextTT]_vars

NextNL ==
  \/ \E t \in NLNotifiers, s \in 0..MaxStat : HandleProgress(t, s)
  \/ \E t \in NLNotifiers, s \in 0..MaxStat, ab \in BOOLEAN, er \in BOOLEAN :
       HandleFinished(t, s, ab, er)
  \/ \E t \in NLNotifiers : NotifsDone(t)
  \/ \E t \in NLNotifiers : NLSmapRemove(t)
  \/ LSCCollect
  \/ LSCAbort
InitSpecNL == IdleReb /\ InitTT /\ InitNL /\ InitMS /\ IdleClu /\ InitEl /\ InitJoin /\ IdleKa
SpecNL == InitSpecNL /\ [][NextNL]_vars

NextMS ==
  \/ \E kinds \in SUBSET RevKinds : MSSync(kinds)
  \/ \E b \in msInflight : MSReceive(b)
InitSpecMS == IdleReb /\ InitTT /\ InitNL /\ InitMS /\ IdleClu /\ InitEl /\ InitJoin /\ IdleKa
SpecMS == InitSpecMS /\ [][NextMS]_vars

Next ==
  \/ \E op \in JoinOps, id \in CluNodes \ {Self} : HttpCluPost(op, id)
  \/ \E j \in joinq : UpdateAndDistribute(j)
  \/ \E failed \in SUBSET (CluNodes \ {Self}), stop \in CluNodes \cup {"nil"} :
       KaSweepStart(failed, stop)
  \/ KaSweepEnd
  \/ \E sid \in CluNodes : HttpCluDel(sid)
  \/ \E act \in RmActions, sid \in CluNodes : RmNode(act, sid)
  \/ \E e \in rmq : RmNodeFinish(e)
  \/ \E l \in nls, ok \in BOOLEAN : NLDone(l, ok)
  \/ \E sid \in CluNodes, skipReb \in BOOLEAN : StopMaintenance(sid, skipReb)
  \/ \E proxyid \in CluProxies : SetPrimaryValidate(proxyid)
  \/ \E ok \in BOOLEAN : SetPrimaryPrepared(ok)
  \/ \E okNew \in BOOLEAN : SetPrimaryCommitted(okNew)
  \/ ClusterStart
Init == IdleReb /\ InitTT /\ InitNL /\ InitMS /\ InitClu /\ InitEl /\ InitJoin /\ IdleKa
Spec == Init /\ [][Next]_vars

\* this proxy handles the commit request of a set-primary that names it, sent
\* by the present primary once this proxy's own hand-over has ended
DaeSetPrimaryCommit ==
  /\ OnlyClu
  /\ ~exited
  /\ ~isPrimary(smap, Self)
  /\ spPc = "idle"
  /\ becomeNewPrimary(smap, Self).Version <= MaxVersion
  /\ smap' = becomeNewPrimary(smap, Self)
  /\ UNCHANGED <<rmd, clusterStarted, rebEnabled, inPrimaryTransition, exited, spPc, spPsi,
                 joinq, rmq, toRemoveCh, stoppedCh, chCap, inProgress, lastSync, nls>>

NextSweep ==
  \/ \E failed \in SUBSET (CluNodes \ {Self}), stop \in CluNodes \cup {"nil"} :
       KaSweepStart(failed, stop)
  \/ KaSweepEnd
  \/ \E proxyid \in CluProxies : SetPrimaryValidate(proxyid)
  \/ \E ok \in BOOLEAN : SetPrimaryPrepared(ok)
  \/ \E okNew \in BOOLEAN : SetPrimaryCommitted(okNew)
  \/ DaeSetPrimaryCommit
InitSpecSweep ==
  /\ IdleReb /\ InitTT /\ InitNL /\ InitMS /\ InitEl /\ InitJoin /\ IdleKa
  /\ smap = RunningSmap /\ clusterStarted = TRUE /\ InitCluRest
SpecSweep == InitSpecSweep /\ [][NextSweep]_vars

\* self-join requests and rebalance requests at the primary
NextReq ==
  \/ \E id \in JoinNodes, ep \in Eps, probe \in Probes :
       JoinRequest("self-join", id, ep, probe)
  \/ \E j \in joinq : UpdateAndDistribute(j)
  \/ RebalanceCluster
  \/ \E l \in nls, ok \in BOOLEAN : NLDone(l, ok)
  \/ ClusterStart
InitSpecReq == IdleReb /\ InitTT /\ InitNL /\ InitMS /\ InitClu /\ InitEl /\ InitJoin /\ IdleKa
SpecReq == InitSpecReq /\ [][NextReq]_vars

\* cluSetPrimary, prepare succeeded: inPrimaryTransition is set
SetPrimaryFlagged ==
  /\ OnlyClu
  /\ ~exited
  /\ spPc = "prepare"
  /\ inPrimaryTransition' = TRUE
  /\ spPc' = "modify"
  /\ UNCHANGED <<smap, rmd, clusterStarted, rebEnabled, exited, spPsi,
                 joinq, rmq, toRemoveCh, stoppedCh, chCap, inProgress, lastSync, nls>>

\* cluSetPrimary, the modify that follows: the SMap names the candidate
SetPrimaryModified ==
  /\ OnlyClu
  /\ ~exited
  /\ spPc = "modify"
  /\ smap' = SetPrimaryPre(smap, spPsi)
  /\ spPc' = "commit"
  /\ UNCHANGED <<rmd, clusterStarted, rebEnabled, inPrimaryTransition, exited, spPsi,
                 joinq, rmq, toRemoveCh, stoppedCh, chCap, inProgress, lastSync, nls>>

\* joins and keepalives at a primary that hands over, the hand-over taken
\* step by step
NextTransit ==
  \/ \E op \in JoinOps, id \in JoinNodes, ep \in Eps, probe \in Probes :
       JoinRequest(op, id, ep, probe)
  \/ \E j \in joinq : UpdateAndDistribute(j)
  \/ \E proxyid \in CluProxies : SetPrimaryValidate(proxyid)
  \/ SetPrimaryPrepared(FALSE)
  \/ SetPrimaryFlagged
  \/ SetPrimaryModified
  \/ \E okNew \in BOOLEAN : SetPrimaryCommitted(okNew)
InitSpecTransit ==
  /\ IdleReb /\ InitTT /\ InitNL /\ InitMS /\ InitEl /\ InitJoin /\ IdleKa
  /\ smap = RunningSmap /\ clusterStarted = TRUE /\ InitCluRest
SpecTransit == InitSpecTransit /\ [][NextTransit]_vars

\* the heartbeats of a non-primary node with the timeout statistics of its primary
NextFeed ==
  \/ KaStartedUp
  \/ \E err \in Errs : KaBeat("ticker", err)
  \/ \E err \in Errs, stopping \in BOOLEAN, connErr \in BOOLEAN, delta \in 0..MaxRTT :
       KaRegisterRetryTT(err, stopping, connErr, delta)
InitSpecFeed ==
  /\ IdleReb /\ InitTT /\ InitNL /\ InitMS /\ InitEl /\ InitJoin
  /\ InitClu /\ clusterStarted /\ rebEnabled
  /\ kaRole = "heartbeat" /\ InitKaRest /\ IdleKt /\ IdleGc /\ IdleSig /\ IdleEv
SpecFeed == InitSpecFeed /\ [][NextFeed]_vars

\* every probe of a peer observes a round trip of maxKeepalive/10
ConvMaxKeepalives == {400, 1000}
NextConv ==
  \/ \E sid \in TTPeers : TTLookup(sid)
  \/ \E sid \in TTPeers : TTUpdate(sid, maxKeepalive \div 10)
InitSpecConv ==
  /\ IdleReb /\ InitNL /\ InitMS /\ IdleClu /\ InitEl /\ InitJoin /\ IdleKa
  /\ timeoutStats = <<>>
  /\ maxKeepalive \in ConvMaxKeepalives
SpecConv == InitSpecConv /\ [][NextConv]_vars

\* maintenance, decommission and shutdown of targets in a cluster of three
RmSmap ==
  [Version |-> 1, Primary |-> Self,
   Pmap |-> [p \in CluProxies |-> {}], Tmap |-> [x \in Targets |-> {}],
   Ep |-> [n \in CluProxies \cup Targets |-> DefaultEp]]
NextRm ==
  \/ \E act \in RmActions, sid \in Targets : RmNode(act, sid)
  \/ \E e \in rmq : RmNodeFinish(e)
  \/ \E l \in nls, err \in BOOLEAN, aborted \in BOOLEAN : NLDoneRm(l, err, aborted)
InitSpecRm ==
  /\ IdleReb /\ InitTT /\ InitNL /\ InitMS /\ InitEl /\ InitJoin /\ IdleKa
  /\ smap = RmSmap /\ clusterStarted = TRUE /\ InitCluRest
SpecRm == InitSpecRm /\ [][NextRm]_vars

InitSpecGc ==
  /\ IdleReb /\ InitTT /\ InitNL /\ InitMS /\ IdleClu /\ InitEl /\ InitJoin
  /\ kaRole = "primary" /\ InitKaRest /\ IdleKt /\ IdleSig /\ IdleEv
  /\ InitGc
SpecGc == InitSpecGc /\ [][NextGc]_vars

\* a heartbeat keepaliver, Stop, and a goroutine that calls onerr and send
NextSig ==
  \/ KaStartedUp
  \/ KaStop
  \/ KaRunStop
  \/ \E err \in Errs : KaBeat("ticker", err)
  \/ \E err \in Errs, stopping \in BOOLEAN : KaRegisterRetry(err, stopping)
  \/ KaRegisterStop
  \/ \E msg \in SigMsgs : SigSend(msg)
  \/ SigClosedUnderSender
  \/ \E err \in Errs, debounced \in BOOLEAN : SigRunReceives(err, debounced)
  \/ SigRegisterReceives
InitSpecSig ==
  /\ IdleReb /\ InitTT /\ InitNL /\ InitMS /\ InitEl /\ InitJoin
  /\ InitClu /\ clusterStarted /\ rebEnabled
  /\ kaRole = "heartbeat" /\ InitKaRest /\ IdleKt /\ IdleGc /\ IdleSig /\ IdleEv
SpecSig == InitSpecSig /\ [][NextSig]_vars

NextCfg ==
  \/ \E f \in Factors, i \in Intervals, mk \in MaxKeepalives : KtSetConfig(f, i, mk)
  \/ \E sid \in KtPeers : KtHeardFrom(sid)
  \/ KtTick
  \/ KtConfigUpdate
InitSpecCfg ==
  /\ IdleReb /\ InitTT /\ InitNL /\ InitMS /\ IdleClu /\ InitEl /\ InitJoin
  /\ kaRole = "primary" /\ InitKaRest /\ InitKt /\ IdleGc /\ IdleSig /\ IdleEv
SpecCfg == InitSpecCfg /\ [][NextCfg]_vars

NextJoin ==
  \/ \E op \in JoinOps, id \in JoinNodes, ep \in Eps, probe \in Probes :
       JoinRequest(op, id, ep, probe)
  \/ \E j \in joinq : UpdateAndDistribute(j)
  \/ \E sid \in JoinNodes : HttpCluDel(sid)
  \/ \E l \in nls, ok \in BOOLEAN : NLDone(l, ok)
  \/ ClusterStart
InitSpecJoin == IdleReb /\ InitTT /\ InitNL /\ InitMS /\ InitClu /\ InitEl /\ InitJoin /\ IdleKa
SpecJoin == InitSpecJoin /\ [][NextJoin]_vars

\* the steps of Run and of the goroutines it starts
KaRuns ==
  \/ KaStartedUp
  \/ \E err \in Errs : KaBeat("ticker", err)
  \/ \E err \in Errs, stopping \in BOOLEAN : KaRegisterRetry(err, stopping)
  \/ \E late \in SUBSET KaPeers : KaSweepBegin("ticker", late)
  \/ \E sid \in KaPeers, err \in Errs : KaProbeFirst(sid, err)
  \/ \E sid \in KaPeers, err \in Errs : KaProbeRetry(sid, err)
  \/ KaSweepDone
\* a receive of kaStopMsg
KaTakesStop ==
  \/ KaRunStop
  \/ KaRegisterStop
  \/ \E sid \in KaPeers : KaProbeStop(sid)
NextKa ==
  \/ KaStartedUp
  \/ KaStop
  \/ KaRunStop
  \/ \E msg \in {"suspend", "resume"} : KaSend(msg)
  \/ \E trigger \in {"ticker", "error"}, err \in Errs : KaBeat(trigger, err)
  \/ \E err \in Errs, stopping \in BOOLEAN : KaRegisterRetry(err, stopping)
  \/ KaRegisterStop
  \/ \E trigger \in {"ticker", "error"}, late \in SUBSET KaPeers : KaSweepBegin(trigger, late)
  \/ \E sid \in KaPeers, err \in Errs : KaProbeFirst(sid, err)
  \/ \E sid \in KaPeers, err \in Errs : KaProbeRetry(sid, err)
  \/ \E sid \in KaPeers : KaProbeStop(sid)
  \/ \E sid \in KaPeers : KaHeard(sid)
  \/ KaSweepDone
InitSpecKa ==
  /\ IdleReb /\ InitTT /\ InitNL /\ InitMS /\ InitEl /\ InitJoin /\ InitKa
  /\ InitClu /\ clusterStarted /\ rebEnabled
SpecKa == InitSpecKa /\ [][NextKa]_vars
\* the ticker of Run keeps firing and the Go select is fair to a sender that
\* stays blocked on the control channel
SpecKaFair == SpecKa /\ WF_vars(KaRuns) /\ SF_vars(KaTakesStop)

NextElect ==
  \/ \E r \in ElRequests, at \in Proxies, proxyid \in Proxies : ElValidate(r, at, proxyid)
  \/ \E r \in ElRequests, ok \in BOOLEAN : ElPrepared(r, ok)
  \/ \E r \in ElRequests : ElModify(r)
  \/ \E r \in ElRequests, to \in Proxies, ok \in BOOLEAN : ElCommitAt(r, to, ok)
  \/ \E r \in ElRequests : ElCommitted(r)
  \/ \E to \in Proxies, m \in elInflight : ElReceive(to, m)
InitSpecElect == IdleReb /\ InitTT /\ InitNL /\ InitMS /\ IdleClu /\ InitEl /\ InitJoin /\ IdleKa
SpecElect == InitSpecElect /\ [][NextElect]_vars

----------------------------------------------------------------------------
(* C1                                                                      *)

\* C1: in every SMap snapshot the primary publishes, the primary id is an
\* entry of the proxy map and that entry is not flagged Maintenance, also
\* when the set-primary candidate is removed or put into maintenance
\* between cluSetPrimary's validation and its SMap modify
C1_PrimaryInProxyMap ==
  /\ smap.Primary \in DOMAIN smap.Pmap
  /\ "Maint" \notin smap.Pmap[smap.Primary]

----------------------------------------------------------------------------
(* C2                                                                      *)

\* C2: of two SMap snapshots published one after the other the second has a
\* version at least that of the first, and a greater one whenever its
\* content (nodes, flags, primary) differs
C2_VersionGrowsWithContent ==
  [][/\ smap'.Version >= smap.Version
     /\ (smap' # smap => smap'.Version > smap.Version)]_vars

----------------------------------------------------------------------------
(* C3                                                                      *)

\* proxy p acts as primary: the SMap it holds names it
ElActsPrimary(p) == p \notin elExited /\ isPrimary(elSmap[p], p)

\* C3: across any interleaving of set-primary requests there are never two
\* proxies that both act as primary and hold SMaps of the same version that
\* differ (in primary or membership)
C3_NoTwoPrimariesAtOneVersion ==
  \A p, q \in Proxies :
    (p # q /\ ElActsPrimary(p) /\ ElActsPrimary(q))
      => ~(elSmap[p].Version = elSmap[q].Version /\ elSmap[p] # elSmap[q])

----------------------------------------------------------------------------
(* C4                                                                      *)

\* C4: the timeout stored for any peer, the value materialized for a missing
\* entry included, lies in [maxKeepalive/2, maxKeepalive] and is positive.
C4_TimeoutClamped ==
  \A sid \in TTPeers :
    LET ts == timeoutStatsForDaemon(timeoutStats, sid, maxKeepalive)
    IN /\ ts.timeout >= maxKeepalive \div 2
       /\ ts.timeout <= maxKeepalive
       /\ ts.timeout > 0

\* both clamps have acted: one peer sits at the floor although srtt + 4*rttvar
\* is below it, another at the ceiling although srtt + 4*rttvar is above it
C4_Witness ==
  \E a, b \in TTPeers :
    /\ a \in DOMAIN timeoutStats /\ b \in DOMAIN timeoutStats
    /\ timeoutStats[a].timeout = maxKeepalive \div 2
    /\ timeoutStats[a].srtt + c * timeoutStats[a].rttvar < maxKeepalive \div 2
    /\ timeoutStats[b].timeout = maxKeepalive
    /\ timeoutStats[b].srtt + c * timeoutStats[b].rttvar > maxKeepalive
    /\ timeoutStats[b].srtt < maxKeepalive

----------------------------------------------------------------------------
(* C5, C6                                                                  *)

AbsentOrMaint(m, t) ==
  t \notin DOMAIN m.Tmap \/ m.Tmap[t] \cap {"Maint", "Decomm"} # {}
IsActiveIn(m, t) ==
  t \in DOMAIN m.Tmap /\ m.Tmap[t] \cap {"Maint", "Decomm"} = {}
RebRequired(prev, cur) ==
  /\ \/ \E t \in Targets : IsActiveIn(cur, t) /\ AbsentOrMaint(prev, t)
     \/ \E t \in Targets : IsActiveIn(prev, t) /\ AbsentOrMaint(cur, t)
  /\ \E t \in Targets : IsActiveIn(prev, t)
  /\ \E t \in Targets : IsActiveIn(cur, t)

\* C5: with rebalance enabled, mustRunRebalance(prev, cur) is true iff some
\* active target of one map is absent-or-in-maintenance in the other and both
\* maps have at least one active target; it is false for every other pair.
C5_MustRunRebalanceIff ==
  (rbRes # "unset" /\ rbEnabled) =>
     (rbRes = "true" <=> RebRequired(rbPrev, rbCur))

C5_Witness ==
  /\ rbRes = "true" /\ rbEnabled
  /\ \E t \in Targets : IsActiveIn(rbCur, t) /\ t \in DOMAIN rbPrev.Tmap
                        /\ "Maint" \in rbPrev.Tmap[t]
  /\ \A t \in Targets : IsActiveIn(rbPrev, t) => IsActiveIn(rbCur, t)

\* the map without target t
DropTarget(m, t) ==
  [m EXCEPT !.Tmap = [x \in DOMAIN m.Tmap \ {t} |-> m.Tmap[x]]]
FlaggedTargets(m) == {t \in DOMAIN m.Tmap : m.Tmap[t] # {}}
ActivePart(m) == [t \in ActiveTargets(m) |-> m.Tmap[t]]

\* C6: a target flagged Maintenance or Decommission counts as absent:
\* removing it from prev or from cur does not change the result, and a change
\* that touches flagged targets only never requires rebalance.
C6_FlaggedIsAbsent ==
  rbRes # "unset" =>
    /\ \A t \in FlaggedTargets(rbPrev) :
         BoolStr(mustRunRebalance(FALSE, rbEnabled, DropTarget(rbPrev, t), rbCur)) = rbRes
    /\ \A t \in FlaggedTargets(rbCur) :
         BoolStr(mustRunRebalance(FALSE, rbEnabled, rbPrev, DropTarget(rbCur, t))) = rbRes
    /\ (ActivePart(rbPrev) = ActivePart(rbCur) => rbRes = "false")

C6_Witness ==
  /\ rbRes = "false" /\ rbEnabled
  /\ ActiveTargets(rbPrev) # {}
  /\ FlaggedTargets(rbPrev) # FlaggedTargets(rbCur)
  /\ \E t \in FlaggedTargets(rbCur) : t \notin DOMAIN rbPrev.Tmap
  /\ \E t \in FlaggedTargets(rbPrev) : t \notin DOMAIN rbCur.Tmap

----------------------------------------------------------------------------
(* C7, C8                                                                  *)

NLQuiet == nlPendDone = {} /\ nlLscPc = "idle"

C8_Inv ==
  /\ nlFinished \subseteq NLNotifiers
  /\ (~nlAborted /\ NLQuiet) => (NLFinished <=> nlFinished = NLNotifiers)
  /\ NLFinished => (nlAborted \/ nlFinished = NLNotifiers)

C8_ProgressFrame ==
  (nlLast'.op = "progress" /\ (nlLast' # nlLast \/ nlStats' # nlStats)) =>
     /\ nlFinished' = nlFinished
     /\ nlEndTime' = nlEndTime
     /\ \A t \in NLNotifiers \ {nlLast'.from} : nlStats'[t] = nlStats[t]

\* C8: the finished set is a subset of the notifier set; without an abort
\* Finished() is true exactly when every notifier has sent Finished; a Progress
\* notification changes the sender's stats only.
C8_FinishedSet == []C8_Inv /\ [][C8_ProgressFrame]_vars

C8_Witness ==
  /\ NLFinished /\ ~nlAborted /\ nlFinished = NLNotifiers
  /\ \E t \in NLNotifiers : nlStats[t] # 0

----------------------------------------------------------------------------
(* C9                                                                      *)

C9_Monotone ==
  \A k \in RevKinds : msInstalled'[k] >= msInstalled[k]
C9_Idempotent ==
  \A b \in msInflight :
    ReceiveBatch(ReceiveBatch(msInstalled, b), b) = ReceiveBatch(msInstalled, b)

\* C9: at a peer the installed version of every kind never decreases, whatever
\* the order, duplication or retry of batches, and receiving the same batch
\* twice leaves the peer as receiving it once.
C9_InstalledMonotone == [][C9_Monotone]_vars /\ []C9_Idempotent

\* an older batch arrived after a newer one was installed, and was dropped
C9_Witness ==
  \E b \in msInflight : \E k \in DOMAIN b :
    /\ b[k] < msInstalled[k]
    /\ ReceiveBatch(msInstalled, b) = msInstalled
    /\ \E b2 \in msInflight : DOMAIN b2 = {"BMD"} /\ b2["BMD"] = msInstalled["BMD"]


----------------------------------------------------------------------------
(* C10                                                                     *)

\* the targets the keepalive modify of this step deletes: active targets,
\* with at least one active target left
KaEvicted == ActiveTargets(smap) \ DOMAIN smap'.Tmap
KaEvictsTarget ==
  /\ inProgress /\ ~inProgress'
  /\ smap' # smap
  /\ rebEnabled /\ clusterStarted
  /\ KaEvicted # {}
  /\ CountActiveTargets(smap') >= 1

\* C10 as stated: the eviction of an active target by the keepalive sweep,
\* with another active target left, yields a higher SMap version without
\* the target, increments the RMD version, and its batch holds the new SMap
\* and the new RMD
C10_EvictionBumpsRMD ==
  [][KaEvictsTarget =>
       /\ smap'.Version > smap.Version
       /\ rmd'.Version = rmd.Version + 1
       /\ lastSync' = Batch("keepalive", smap'.Version, rmd'.Version)]_vars

\* C10, amended: the eviction yields a higher SMap version without the
\* target, leaves the RMD as it was, and its batch holds the new SMap alone
C10_EvictionSyncsSMapOnly ==
  [][KaEvictsTarget =>
       /\ smap'.Version > smap.Version
       /\ KaEvicted \cap DOMAIN smap'.Tmap = {}
       /\ rmd' = rmd
       /\ nls' = nls
       /\ lastSync' = Batch("keepalive", smap'.Version, 0)]_vars

\* the running cluster right after the sweep evicted the active target t1:
\* t2 is left active, the RMD is the initial one
C10_Witness ==
  /\ clusterStarted /\ rebEnabled
  /\ smap.Version = 2
  /\ DOMAIN smap.Tmap = {"t2"} /\ smap.Tmap["t2"] = {}
  /\ lastSync = Batch("keepalive", 2, 0)
  /\ rmd.Version = 1
  /\ ~inProgress

----------------------------------------------------------------------------
(* C11                                                                     *)

\* the updateAndDistribute calls that run in this step
JoinsRun == joinq \ joinq'
\* this step runs the join of a new, unflagged target on a started primary
\* with rebalance enabled and at least one active target
JoinsNewTarget(j) ==
  /\ j \in JoinsRun
  /\ ~IsProxy(j.id) /\ GetTarget(smap, j.id) = "nil" /\ j.flags = {}
  /\ isPrimary(smap, Self) /\ clusterStarted /\ rebEnabled
  /\ CountActiveTargets(smap) >= 1

\* C11: the join of a new target into a started cluster with rebalance
\* enabled and an active target publishes an SMap of higher version with the
\* target, increments the RMD version by 1 with TargetIDs the joiner's id,
\* sends that RMD in the batch of the SMap and registers a listener whose
\* uuid is the new RMD version
C11_TargetJoinRebalances ==
  [][\A j \in joinq : JoinsNewTarget(j) =>
       /\ smap'.Version > smap.Version
       /\ GetTarget(smap', j.id) # "nil"
       /\ rmd' = [Version |-> rmd.Version + 1, TargetIDs |-> {j.id}]
       /\ lastSync' = Batch("join", smap'.Version, rmd'.Version)
       /\ \E l \in nls' : l.uuid = rmd'.Version]_vars

\* t1 was removed from the running cluster and has joined again as a new
\* target: SMap v3 holds it, the RMD of its join is registered and was sent
C11_Witness ==
  /\ clusterStarted /\ rebEnabled
  /\ smap.Version = 3
  /\ DOMAIN smap.Tmap = {"t1", "t2"}
  /\ rmd.TargetIDs = {"t1"}
  /\ lastSync = Batch("join", 3, rmd.Version)
  /\ \E l \in nls : l.uuid = rmd.Version
----------------------------------------------------------------------------
(* C12  duplicate node id on self-join                                     *)

\* the step handles a self-join of a node whose id the SMap of the primary
\* holds with other identity fields
SelfJoinOtherIdentity ==
  /\ reply' # reply
  /\ reply'.op = "self-join"
  /\ isPrimary(smap, Self)
  /\ GetNode(smap, reply'.id) # "nil"
  /\ ~Equals(smap, reply'.id, reply'.ep)

\* C12: a self-join with an id that the SMap holds with different identity
\* fields is rejected with a duplicate-id error when the probe finds the old
\* node alive, and rejected as well when the probe itself fails; either way
\* the SMap, the RMD and the registered listeners stay as they were and no
\* update is started
C12_DuplicateSelfJoinRejected ==
  [][SelfJoinOtherIdentity =>
       /\ reply'.probe = "dup" =>
            reply'.status = "duplicate" /\ UNCHANGED <<smap, rmd, nls, joinq, lastSync>>
       /\ reply'.probe = "err" =>
            reply'.status = "probe-error" /\ UNCHANGED <<smap, rmd, nls, joinq, lastSync>>]_vars

\* a started cluster whose primary has just rejected a duplicate self-join
C12_Witness ==
  /\ clusterStarted
  /\ reply.op = "self-join" /\ reply.probe = "dup" /\ reply.status = "duplicate"
  /\ GetNode(smap, reply.id) # "nil"
  /\ ~Equals(smap, reply.id, reply.ep)

----------------------------------------------------------------------------
(* C13  heartbeat retries before onPrimaryFail                             *)

\* the step is a retry of register
RegisterRetries == runPc = "register" /\ regI' # regI

\* C13: a keepalive to the primary that failed is retried, at most
\* kaNumRetries = 3 times; a retry that succeeds ends the round without a
\* call of onPrimaryFail, as does a first attempt that succeeds; the round
\* is given up for failed retries only after the third of them, and then
\* onPrimaryFail is called
C13_HeartbeatRetries ==
  /\ [](regI <= kaNumRetries)
  /\ [](regRes = "ok" => ~primaryFail)
  /\ [][RegisterRetries =>
          /\ regI' = regI + 1
          /\ regRes' = "ok" => ~primaryFail' /\ runPc' # "register"
          /\ regRes' = "exhausted" => regI' = kaNumRetries
          /\ (regI' = kaNumRetries /\ regRes' # "ok") =>
                primaryFail' /\ regRes' = "exhausted" /\ runPc' # "register"]_vars

\* a round in which the first attempt and three retries failed
C13_Witness ==
  /\ kaRole = "heartbeat"
  /\ regRes = "exhausted" /\ regI = kaNumRetries /\ primaryFail
  /\ runPc = "select"

----------------------------------------------------------------------------
(* C14  what a probe pushes onto toRemoveCh                                *)

\* the step pushes the id of peer sid onto toRemoveCh
Pushes(sid) ==
  /\ Len(toRemoveCh') = Len(toRemoveCh) + 1
  /\ toRemoveCh'[Len(toRemoveCh')] = sid

\* the step ends a sweep that removes peer sid from the SMap
SweepRemoves(sid) ==
  /\ runPc = "sweep" /\ runPc' # "sweep"
  /\ GetNode(smap, sid) # "nil" /\ GetNode(smap', sid) = "nil"

\* C14: the id of a peer is pushed onto toRemoveCh only when its first
\* Health call and kaNumRetries = 3 retries have all failed in the sweep; a
\* peer whose Health call succeeded, or from which a keepalive was heard
\* since its probe began, is neither pushed nor removed by the sweep
C14_PushedAfterAllRetriesFail ==
  [][\A sid \in KaPeers :
       /\ Pushes(sid) =>
            /\ pr'[sid].pc = "failed" /\ pr'[sid].i = kaNumRetries
            /\ sid \in timedOut
       /\ SweepRemoves(sid) =>
            /\ pr[sid].pc = "failed" /\ pr[sid].i = kaNumRetries
            /\ sid \in timedOut]_vars

----------------------------------------------------------------------------
(* C15  a Stop signal short-circuits the sweep                             *)

\* the step ends a sweep one of whose probes observed the Stop signal
StoppedSweepEnds == inProgress /\ stoppedCh > 0 /\ ~inProgress'

\* C15: a sweep in which a probe observed the Stop signal modifies no SMap
\* and removes no node, whatever ids its probes pushed onto toRemoveCh,
\* syncs nothing, and leaves no id behind for a later sweep: both channels
\* are gone when it returns
C15_StopShortCircuitsSweep ==
  [][StoppedSweepEnds =>
       /\ smap' = smap /\ rmd' = rmd /\ lastSync' = lastSync
       /\ toRemoveCh' = <<>> /\ stoppedCh' = 0 /\ chCap' = 0]_vars

\* a stopped sweep about to end with the ids of two peers on toRemoveCh
C15_Witness ==
  /\ inProgress /\ stoppedCh > 0
  /\ Len(toRemoveCh) = 2
  /\ \A i \in 1..2 : GetNode(smap, toRemoveCh[i]) # "nil"

----------------------------------------------------------------------------
(* C16  Stop ends Run                                                      *)

\* C16: once Stop has been called, Run returns - whichever receive takes
\* the kaStopMsg: waitStatsRunner, the select of Run, the retry loop of
\* register or the retry loop of a probe
C16_StopLeadsToReturn == (ctl = "stopping") ~> (runPc = "returned")
----------------------------------------------------------------------------
(* C17  a failed prepare aborts set-primary                                *)

\* the step ends request r on a failure in its prepare broadcast
Aborts(r) == elReq[r].pc = "prepare" /\ elReq'[r].pc = "aborted"

\* C17: when a node fails the prepare broadcast the request ends there and
\* changes nothing on the proxy that handles it: its SMap, its
\* inPrimaryTransition and its metasyncer stay as they were, and no commit
\* request goes out for it, then or later
C17_PrepareFailureAborts ==
  /\ [][\A r \in ElRequests :
          Aborts(r) =>
            /\ UNCHANGED <<elSmap, elTransition, elDemoted, elInflight, elExited>>
            /\ elReq'[r].pend = {}]_vars
  /\ [][\A r \in ElRequests : elReq[r].pc = "aborted" => elReq'[r] = elReq[r]]_vars

\* a request that was aborted at the primary, which is as it was
C17_Witness ==
  \E r \in ElRequests :
    /\ elReq[r].pc = "aborted" /\ elReq[r].at = "p1"
    /\ elSmap["p1"] = [Version |-> 1, Primary |-> "p1"]
    /\ ~elTransition["p1"] /\ "p1" \notin elDemoted

----------------------------------------------------------------------------
(* C18  one transition at a time                                           *)

\* C18: at every instant at most one proxy of the cluster has
\* inPrimaryTransition set
C18_OneProxyInTransition ==
  Cardinality({p \in Proxies : elTransition[p]}) <= 1

----------------------------------------------------------------------------
(* C19  set-primary during a transition                                    *)

\* the step takes in request r at a proxy whose inPrimaryTransition is set
ArrivesInTransition(r) ==
  /\ elReq[r].pc = "idle" /\ elReq'[r].pc # "idle"
  /\ elTransition[elReq'[r].at]

\* C19: a set-primary request that reaches a proxy whose inPrimaryTransition
\* is set is rejected: it does not enter its prepare phase, and so changes
\* neither the SMap nor the transition in progress
C19_RejectedDuringTransition ==
  [][\A r \in ElRequests : ArrivesInTransition(r) => elReq'[r].pc = "rejected"]_vars

----------------------------------------------------------------------------
(* C20  self-join of a node the SMap already holds                         *)

\* the step handles, at a started primary, a self-join of a node that the
\* SMap holds with these very identity fields
SelfJoinSameIdentity ==
  /\ reply' # reply
  /\ reply'.op = "self-join"
  /\ clusterStarted /\ isPrimary(smap, Self) /\ ~inPrimaryTransition
  /\ GetNode(smap, reply'.id) # "nil"
  /\ Equals(smap, reply'.id, reply'.ep)

\* C20: such a self-join succeeds as a renewal with nothing to update: the
\* SMap, the RMD and the listeners stay as they were, nothing is synced and
\* no update of the SMap is started
C20_RejoinIsRenewal ==
  [][SelfJoinSameIdentity =>
       /\ reply'.status = "ok"
       /\ UNCHANGED <<smap, rmd, nls, joinq, lastSync>>]_vars

----------------------------------------------------------------------------
(* C21  keepalive of a node the SMap does not hold                         *)

\* the step handles, at the primary, a keepalive of a node whose id is not
\* in the SMap
KeepaliveOfAbsent ==
  /\ reply' # reply
  /\ reply'.op = "keepalive"
  /\ isPrimary(smap, Self) /\ ~inPrimaryTransition
  /\ GetNode(smap, reply'.id) = "nil"

\* C21: a keepalive of a node that the SMap does not hold is answered, and
\* that is all: the node is not put into the SMap and no update of the SMap
\* is started for it
C21_KeepaliveDoesNotJoin ==
  [][KeepaliveOfAbsent =>
       /\ reply'.status \notin {"put", "update"}
       /\ UNCHANGED <<smap, rmd, nls, joinq, lastSync>>]_vars
----------------------------------------------------------------------------
(* C22  removing the last active target skips rebalance                    *)

\* the step runs rebalanceAndRmSelf for target e.sid, which rmNode has
\* flagged already
RebalanceAndRmSelfRuns(e) == e \in rmq \ rmq' /\ ~IsProxy(e.sid)

\* C22: rebalanceAndRmSelf increments the RMD only when the SMap has at
\* least 2 active targets; with fewer - as when the one active target of
\* the cluster goes into maintenance, is decommissioned or shut down - the
\* RMD stays as it is, no rebalance listener is registered and no RMD is
\* synced
C22_LastTargetSkipsRebalance ==
  [][\A e \in rmq :
       (RebalanceAndRmSelfRuns(e) /\ CountActiveTargets(smap) < 2) =>
          /\ rmd' = rmd
          /\ nls' = nls
          /\ lastSync'.rmd = 0 \/ lastSync' = lastSync]_vars

\* the one target of a started cluster is in maintenance, its removal has
\* run and the RMD is the one the cluster started with
C22_Witness ==
  /\ clusterStarted /\ rebEnabled
  /\ DOMAIN smap.Tmap = {"t1"} /\ NodeFlags(smap, "t1") = {"Maint"}
  /\ rmq = {}
  /\ rmd.Version = 1 /\ nls = {}
  /\ lastSync.msg = "start-maintenance"
----------------------------------------------------------------------------
(* C23  a rebalance request while rebalance is disabled                    *)

\* the step handles a user's rebalance request at a started primary whose
\* configuration disables rebalance
RebalanceRequestedDisabled ==
  /\ reply' # reply
  /\ reply'.op = "rebalance"
  /\ isPrimary(smap, Self) /\ clusterStarted
  /\ ~rebEnabled

\* C23 as stated: with rebalance disabled the request is no error and does
\* nothing: the RMD keeps its version and no listener is registered
C23_DisabledRequestIsNoOp ==
  [][RebalanceRequestedDisabled =>
       /\ reply'.status # "error"
       /\ rmd' = rmd /\ nls' = nls]_vars

\* C23 amended: with rebalance disabled the request is no error, and it is
\* carried out as if rebalance were enabled: with 2 or more active targets
\* the RMD is incremented and synced and a listener registered for it, with
\* fewer nothing changes
C23_DisabledRequestRuns ==
  [][RebalanceRequestedDisabled =>
       /\ reply'.status # "error"
       /\ IF CountActiveTargets(smap) >= 2
          THEN /\ rmd'.Version = rmd.Version + 1
               /\ lastSync' = Batch("rebalance", 0, rmd'.Version)
               /\ \E l \in nls' : l.uuid = rmd'.Version
          ELSE rmd' = rmd /\ nls' = nls /\ lastSync' = lastSync]_vars

\* rebalance is disabled and a requested rebalance has been started
C23_Witness ==
  /\ ~rebEnabled /\ clusterStarted
  /\ reply.op = "rebalance" /\ reply.status = "rebalance"
  /\ rmd.Version = 2
  /\ lastSync = Batch("rebalance", 0, 2)
  /\ \E l \in nls : l.uuid = 2
----------------------------------------------------------------------------
(* C24  ListenSmapChanged aborts the listeners that lost a notifier        *)

\* C24: a listener still active with a notifier absent from the SMap is
\* picked up by ListenSmapChanged whatever its finished set is, and only such
\* a listener is; when ListenSmapChanged has dealt with it, it is aborted and
\* finished, with an error, and its finished set is as it was
C24_SmapChangeAborts ==
  /\ []((nlLscPc = "idle" /\ nlInNls /\ ~(NLNotifiers \subseteq nlSmapT))
           => ENABLED LSCCollect)
  /\ [][/\ (nlLscPc # nlLscPc') => ~(NLNotifiers \subseteq nlSmapT)
        /\ (nlLscPc = "collected" /\ nlLscPc' = "idle")
             => /\ nlAborted' /\ NLFinished' /\ nlErr'
                /\ nlFinished' = nlFinished]_vars

\* one of three notifiers had finished, another one left the SMap, and
\* ListenSmapChanged aborted the listener
C24_Witness ==
  /\ nlLast.op = "smap-changed"
  /\ nlFinished = {"t1"} /\ nlSmapT = {"t1", "t3"}
  /\ nlAborted /\ NLFinished /\ nlCbCount = 1
  /\ nlLscPc = "idle"
----------------------------------------------------------------------------
(* C25  an abort is sticky and later Finished notifications are accepted   *)

\* C25: Aborted(), Finished() and the error, once set, stay; when the handler
\* that took an abort has returned the listener is aborted and finished with
\* an error; a notifier that has not finished can still send Finished to an
\* aborted listener, and the handler adds it to the finished set
C25_AbortSticky ==
  /\ []((nlAborted /\ NLQuiet) => (NLFinished /\ nlErr))
  /\ [](\A t \in NLNotifiers :
          (nlAborted /\ t \notin nlFinished) => ENABLED HandleFinished(t, 0, FALSE, FALSE))
  /\ [][/\ nlAborted => nlAborted'
        /\ NLFinished => NLFinished'
        /\ nlErr => nlErr'
        /\ (nlAborted /\ nlLast' # nlLast /\ nlLast'.op = "finished")
             => nlFinished' = nlFinished \cup {nlLast'.from}]_vars

\* t1 reported an abort, the listener was archived, and t2's Finished was
\* taken afterwards; no notifier left the SMap
C25_Witness ==
  /\ nlAborted /\ NLFinished /\ nlErr /\ NLQuiet
  /\ nlSmapT = NLNotifiers
  /\ nlFinished = {"t1", "t2"}
  /\ nlLast = [op |-> "finished", from |-> "t2", ab |-> FALSE]
  /\ nlCbCount = 1
----------------------------------------------------------------------------
(* C26  the channels at the start of a sweep                               *)

\* updateSmap takes the CAS on inProgress: a sweep starts
SweepStarts == ~inProgress /\ inProgress'

\* C26: when a sweep starts, the channels openCh leaves it with are empty
C26_ChannelsEmptyAtSweepStart ==
  [][SweepStarts =>
       /\ openCh(Count(smap)).toRemoveCh = <<>>
       /\ openCh(Count(smap)).stoppedCh = 0]_vars
----------------------------------------------------------------------------
(* C27  configUpdate and the rebuild of the tracker                        *)

ConfigUpdateRuns == kaState.pc = "configUpdate" /\ kaState'.pc = "select"
TrackerRebuilt == kaState'.gen # kaState.gen

\* C27 as stated: configUpdate rebuilds the tracker if and only if the
\* configured factor or the configured interval differs from the one the
\* tracker was built under; else the tracker and its samples are kept
C27_RebuildIffEitherChanged ==
  [][ConfigUpdateRuns =>
       /\ TrackerRebuilt <=> (\/ kaConf.Factor # kaState.builtAt.Factor
                              \/ kaConf.Interval # kaState.builtAt.Interval)
       /\ ~TrackerRebuilt => kaState'.kt = kaState.kt]_vars

\* C27 amended: a heartbeat tracker is rebuilt if and only if the interval
\* changed, an average tracker if and only if the factor changed; a rebuilt
\* tracker has no samples, and else the tracker, its samples and the
\* keepalive's interval are kept
C27_RebuildIffOwnParameterChanged ==
  [][ConfigUpdateRuns =>
       /\ TrackerRebuilt <=>
            IF kaConf.Name = "heartbeat"
            THEN kaConf.Interval # kaState.builtAt.Interval
            ELSE kaConf.Factor # kaState.builtAt.Factor
       /\ TrackerRebuilt => /\ kaState'.kt = newKeepaliveTracker(kaConf)
                            /\ kaState'.interval = kaConf.Interval
       /\ ~TrackerRebuilt => /\ kaState'.kt = kaState.kt
                             /\ kaState'.interval = kaState.interval]_vars

\* the factor was changed under a heartbeat tracker, configUpdate has run
\* with that config, and the tracker built first is kept with its samples
C27_Witness ==
  /\ kaConf.Name = "heartbeat"
  /\ kaState.seen = kaConf /\ kaState.pc = "select"
  /\ kaConf.Factor # kaState.builtAt.Factor
  /\ kaState.gen = 0
  /\ kaState.kt.heard = KtPeers
----------------------------------------------------------------------------
(* C28  two self-joins under one node id                                   *)

\* self-join requests the handler has admitted (updateAndDistribute is
\* under way) for an id the SMap does not hold yet
AdmittedSelfJoins(id) == {j \in joinq : j.id = id /\ GetNode(smap, id) = "nil"}

\* C28: of the self-join requests that carry one id and different endpoints
\* and were validated with the id not yet in the SMap, at most one is admitted
C28_OneNodePerId ==
  \A id \in JoinNodes : \A j1, j2 \in AdmittedSelfJoins(id) : j1.ep = j2.ep
----------------------------------------------------------------------------
(* C29  an eviction that finds nothing to remove                           *)

\* updateSmap is past wg.Wait, no Stop was seen, and it calls modify
EvictionModifies ==
  /\ inProgress /\ ~inProgress'
  /\ stoppedCh = 0
  /\ Len(toRemoveCh) > 0

\* C29: if the node is no longer primary, or none of the ids in toRemoveCh is
\* a proxy or a target of the SMap, the eviction publishes no SMap and sends
\* no metasync
C29_NothingToEvict ==
  [][(/\ EvictionModifies
      /\ \/ ~isPrimary(smap, Self)
         \/ \A i \in 1..Len(toRemoveCh) : GetNode(smap, toRemoveCh[i]) = "nil")
       => /\ smap' = smap
          /\ rmd' = rmd
          /\ lastSync' = lastSync]_vars

\* a sweep pushed a peer, the hand-over to p2 came before its modify, and
\* _pre returned not-primary: the SMap is the one of the hand-over, nothing
\* was synced and the id is still in the channel
C29_Witness ==
  /\ ~inProgress /\ stoppedCh = 0
  /\ Len(toRemoveCh) > 0
  /\ ~isPrimary(smap, Self)
  /\ lastSync = NoBatch
  /\ \A i \in 1..Len(toRemoveCh) : GetNode(smap, toRemoveCh[i]) # "nil"
----------------------------------------------------------------------------
(* C30  keepalive beats while the primary is in transition                 *)

\* the step handles a request that arrives while inPrimaryTransition is set
HandledInTransition(ops) ==
  /\ reply' # reply
  /\ reply'.op \in ops
  /\ inPrimaryTransition

\* C30: a keepalive beat that arrives while inPrimaryTransition is set is
\* ignored - the SMap, the tracker's record and the pending modifications
\* stay as they are -, and a join request is handled as without the flag:
\* forwarded where the node is not primary, and at the primary a join of a
\* node the SMap does not hold starts updateAndDistribute
C30_KeepaliveIgnoredInTransition ==
  [][/\ HandledInTransition({"keepalive"}) =>
          /\ reply'.status = "ignored"
          /\ UNCHANGED <<smap, rmd, joinq, lastSync, kaState>>
     /\ HandledInTransition({"self-join", "admin-join"}) =>
          /\ reply'.status # "ignored"
          /\ reply'.status = "forwarded" <=> ~isPrimary(smap, Self)
          /\ (isPrimary(smap, Self) /\ GetNode(smap, reply'.id) = "nil")
               => (reply'.status = "update" /\ joinq' # joinq)]_vars

\* the flag is set, the SMap still names this node primary, and the beat of
\* a node of the SMap was ignored: the tracker has no sample for it
C30_Witness ==
  /\ inPrimaryTransition /\ isPrimary(smap, Self)
  /\ reply.op = "keepalive" /\ reply.status = "ignored"
  /\ GetNode(smap, reply.id) # "nil" /\ Equals(smap, reply.id, reply.ep)
  /\ reply.id \notin kaState.kt.heard
  /\ joinq = {}
----------------------------------------------------------------------------
(* C31  the sample of a retry that fails with a connection error           *)

----------------------------------------------------------------------------
(* C32  probes that all observe maxKeepalive/10                            *)

\* ts after n more probes that observed maxKeepalive/10 each: n consecutive
\* calls of updateTimeoutForDaemon, split in two halves so that the
\* evaluation nests only log(n) deep; each half is bound to its value
\* before the next one starts
RECURSIVE ProbesFrom(_, _)
ProbesFrom(ts, n) ==
  IF n = 0 THEN ts
  ELSE IF n = 1
    THEN updateTimeoutForDaemon(ts, maxKeepalive \div 10, maxKeepalive)
    ELSE CHOOSE r \in {ProbesFrom(mid, n - n \div 2) :
                         mid \in {ProbesFrom(ts, n \div 2)}} : TRUE

\* the statistics after n probes that observed maxKeepalive/10 each
AfterProbes(n) == ProbesFrom(NewTimeoutStats(maxKeepalive), n)

StatsOf(sid) == timeoutStatsForDaemon(timeoutStats, sid, maxKeepalive)
ProbeOf(sid) == StatsOf(sid)' # StatsOf(sid)

\* srtt goes down at each of the first 10 probes and never below
\* maxKeepalive/10; a timeout at the floor stays there
SrttConverges ==
  \A sid \in TTPeers :
     /\ StatsOf(sid)'.srtt >= maxKeepalive \div 10
     /\ StatsOf(sid)'.srtt <= StatsOf(sid).srtt
     /\ (\E n \in 0..9 : StatsOf(sid) = AfterProbes(n) /\ ProbeOf(sid))
          => StatsOf(sid)'.srtt < StatsOf(sid).srtt
     /\ StatsOf(sid).timeout = maxKeepalive \div 2
          => StatsOf(sid)'.timeout = maxKeepalive \div 2

\* C32 as stated: after the 10 probes the scenario names, srtt is between
\* maxKeepalive/10 and its initial value and the timeout is on its way to
\* the floor: below maxKeepalive
C32_TenProbesApproachFloor ==
  \A sid \in TTPeers :
     StatsOf(sid) = AfterProbes(10)
       => /\ StatsOf(sid).srtt >= maxKeepalive \div 10
          /\ StatsOf(sid).srtt < maxKeepalive
          /\ StatsOf(sid).timeout < maxKeepalive

\* C32 amended: srtt converges as above; the timeout is maxKeepalive after
\* each of the first 16 probes, is below it after the 17th and is at the
\* floor after the 23rd
C32_TimeoutFloorAfter23 ==
  /\ [][SrttConverges]_vars
  /\ [](\A sid \in TTPeers :
          /\ \A n \in 0..16 :
               StatsOf(sid) = AfterProbes(n) => StatsOf(sid).timeout = maxKeepalive
          /\ \A n \in 17..22 :
               StatsOf(sid) = AfterProbes(n)
                 => /\ StatsOf(sid).timeout < maxKeepalive
                    /\ StatsOf(sid).timeout > maxKeepalive \div 2
          /\ StatsOf(sid) = AfterProbes(23) => StatsOf(sid).timeout = maxKeepalive \div 2)

\* 23 probes of t1 are done: its timeout is at the floor and its srtt still
\* above maxKeepalive/10
C32_Witness ==
  /\ "t1" \in DOMAIN timeoutStats
  /\ timeoutStats["t1"] = AfterProbes(23)
  /\ timeoutStats["t1"].timeout = maxKeepalive \div 2
  /\ timeoutStats["t1"].srtt > maxKeepalive \div 10
----------------------------------------------------------------------------
(* C33  removal of a target waits for its rebalance                        *)

\* the listeners whose rebalance ends in this step
NlEnded == nls \ nls'
\* target x leaves the SMap in this step
TargetRemoved(x) == x \in DOMAIN smap.Tmap /\ x \notin DOMAIN smap'.Tmap

RemovalWaitsForRebalance ==
  /\ \A l \in nls' \ nls : l.uuid = rmd'.Version /\ rmd'.Version = rmd.Version + 1
  /\ \A l \in NlEnded :
       /\ nlLast'.uuid = l.uuid /\ nlLast'.from = l.cb
       /\ nlLast'.rm => l.cb # "none" /\ ~nlLast'.err /\ ~nlLast'.ab
       /\ (nlLast'.err \/ nlLast'.ab) => ~nlLast'.rm /\ smap' = smap
  /\ \A x \in Targets :
       TargetRemoved(x)
         => \/ rmq' # rmq /\ CountActiveTargets(smap) < 2
            \/ \E l \in NlEnded :
                 l.cb = x /\ l.act = "decommission-node" /\ nlLast'.rm

\* C33: with 2 or more active targets a target leaves the SMap, and
\* callRmSelf is called, only in the callback of the rebalance listener whose
\* uuid is the RMD version of the request, and only if that rebalance ended
\* without error and unaborted; a listener of start-maintenance has no callback
C33_RemovalOnlyAfterRebalance ==
  /\ [][RemovalWaitsForRebalance]_vars
  /\ [](\A l \in nls :
          /\ l.act = "start-maintenance" => l.cb = "none"
          /\ l.cb # "none" => l.act \in {"decommission-node", "shutdown-node"}
          /\ l.uuid <= rmd.Version)

\* the rebalance of t1's decommission ended well and the callback removed t1,
\* which left two active targets
C33_Witness ==
  /\ nlLast.op = "rebalance-done" /\ nlLast.from = "t1" /\ nlLast.rm
  /\ ~nlLast.err /\ ~nlLast.ab
  /\ "t1" \notin DOMAIN smap.Tmap
  /\ CountActiveTargets(smap) = 2
  /\ lastSync.msg = "decommission-node"
----------------------------------------------------------------------------
(* C34  the heap of the stream collector after do()                        *)

HeapIdx == 0..(Len(gcHeap) - 1)
\* heap[i].index == i
IndexMatches == \A i \in HeapIdx : sb[gcHeap[i + 1]].index = i
\* heap[i+1].ticks >= heap[i].ticks
TicksAscend ==
  \A i \in HeapIdx : i + 1 \in HeapIdx => sb[gcHeap[i + 2]].ticks >= sb[gcHeap[i + 1]].ticks
\* the order container/heap keeps: no stream is below a stream with more ticks
MinHeap ==
  \A i \in HeapIdx : i > 0 => sb[gcHeap[(i - 1) \div 2 + 1]].ticks <= sb[gcHeap[i + 1]].ticks

\* C34: after do() every stream of the heap is at the position its index
\* names and the ticks ascend along the heap
C34_HeapOrderedAfterDo == gcLast = "tick" => IndexMatches /\ TicksAscend
----------------------------------------------------------------------------
(* C35  when onPrimaryFail is called                                       *)

\* C35: onPrimaryFail has been called only in a round whose first keepalive
\* and kaNumRetries retries all failed
C35_PrimaryFailOnlyWhenExhausted ==
  primaryFail => regRes = "exhausted" /\ regI = kaNumRetries

----------------------------------------------------------------------------
(* C36  what ends the loop of Run                                          *)

\* C36: the retry of register that exhausts the retries leaves Run in its
\* loop, whatever triggered the round
C36_ExhaustedRetriesKeepRunning ==
  [][(runPc = "register" /\ regI' = kaNumRetries /\ regI # regI'
        /\ regRes' = "exhausted") => runPc' = "select"]_vars

----------------------------------------------------------------------------
(* C37  no round while the keepaliver is suspended                         *)

\* C37: no round of doKeepalive starts while the ticker is paused: neither
\* register nor a sweep of the primary is entered
C37_NoRoundWhileSuspended ==
  [][(runPc = "select" /\ runPc' \in {"register", "sweep"}) => ~tickerPaused]_vars
----------------------------------------------------------------------------
(* C38  an RMD incremented for a join is published                         *)

\* the step is an updateAndDistribute that increments the RMD
JoinIncrementsRmd ==
  joinq' # joinq /\ joinq' \subseteq joinq /\ rmd'.Version > rmd.Version

\* C38: a join that increments the RMD puts the new RMD into its metasync
\* batch and registers a listener whose uuid is the new version
C38_RmdIncrementPublished ==
  [][JoinIncrementsRmd =>
       /\ lastSync'.rmd = rmd'.Version
       /\ \E l \in nls' : l.uuid = rmd'.Version]_vars
----------------------------------------------------------------------------
(* C40  sends on the control channel around Stop                           *)

\* C40: no send of onerr or send hits the closed channel, and none waits on
\* the channel once Run has returned and nothing receives from it any more
C40_NoSendOnClosedOrDeadChannel ==
  /\ sendPc # "panicked"
  /\ ~(sendPc \in SigMsgs /\ runPc = "returned")
----------------------------------------------------------------------------
(* C39  a silent peer is evicted                                           *)

\* C39: the peer that has gone silent is removed from the SMap in the end,
\* whichever tracker is configured and whatever the tracker recorded of the
\* peer before it went silent
C39_SilentPeerEvicted == <>(GetNode(smap, EvSilent) = "nil")
====
